---- MODULE Spec2Model ----
(***************************************************************************)
(* VNGEN: the timeline model (model.py), the active-block resolver         *)
(* (vngen/layers.py), the compositor inputs (core.py) and the playback /   *)
(* logic state machine (vngen/widget.py).                                  *)
(*                                                                         *)
(* Time is counted in units of 1/300 s, so that every time constant of the *)
(* program is a whole number: 0.05 s = 15, TICK_SEC = 0.0333333 s = 10,    *)
(* 60 s = 18000, 0.01 s = 3.  The tolerances 1e-9 and 1e-6 of the code are *)
(* far below one unit: on this grid  x > y + 1e-6  is  x > y  and          *)
(* t0 - 1e-9 <= t  is  t0 <= t.                                            *)
(***************************************************************************)
EXTENDS Integers, Sequences, FiniteSets, TLC

UnitsPerSecond == 3 * 100

\* seconds (given in tenths) to time units
Ds(tenths) == tenths * (UnitsPerSecond \div 10)

TICK_SEC == 10
MaxDt == 15
MinDuration == 18000
GameW == 960
GameH == 540
DefaultCps == 24
DefaultFxDur == 300

NONE == "none"

TRACKS == <<"BG", "SPRITE", "DIALOG", "SFX", "MUSIC", "FX", "MENU", "LOGIC">>

TrackSet == {TRACKS[i] : i \in 1..Len(TRACKS)}

DEFAULT_TRACK_DURATIONS ==
  [tr \in TrackSet |->
     CASE tr = "BG" -> 180
       [] tr = "SPRITE" -> 120
       [] tr = "DIALOG" -> 750
       [] tr = "SFX" -> 60
       [] tr = "MUSIC" -> 1500
       [] tr = "FX" -> 180
       [] tr = "MENU" -> 9000
       [] tr = "LOGIC" -> 3]

Max(a, b) == IF a >= b THEN a ELSE b
Min(a, b) == IF a <= b THEN a ELSE b

\* dict.get(key, default)
Get(d, key, default) == IF key \in DOMAIN d THEN d[key] ELSE default

\* d with d[key] = val (dict item assignment)
Put(d, key, val) ==
  [k \in (DOMAIN d) \cup {key} |-> IF k = key THEN val ELSE d[k]]

(***************************************************************************)
(* The file system and the float parser, as far as the timelines below use *)
(* them.                                                                   *)
(***************************************************************************)
\* os.path.isfile of a resolved asset path
ExistingFiles == {"bg1.png", "bg2.png", "hero.png", "ding.ogg", "theme.ogg",
                  "locked.py", "bad.py", "boom.py"}

IsFile(resolved) == resolved.rel \in ExistingFiles

\* pygame.mixer.Sound(path).get_length() of the audio files, in time units
AudioLen(path) == IF path = "theme.ogg" THEN 600 ELSE IF path = "ding.ogg" THEN 30 ELSE 0

\* normalize_asset_path: a path under the asset root becomes root-relative
NormalizeAsset(path) ==
  CASE path = "/proj/bg1.png" -> "bg1.png"
    [] path = "/proj/bg2.png" -> "bg2.png"
    [] path = "/proj/theme.ogg" -> "theme.ogg"
    [] OTHER -> path

\* the strings of the timelines that float() accepts, with their value in
\* time units; float() raises ValueError on any other
FloatTable ==
  {<<"10.0", 3000>>, <<"0", 0>>, <<"0.0", 0>>, <<"2.5", 750>>, <<"100.0", 30000>>,
   <<"-5", -1500>>, <<"5.0", 1500>>, <<"5.5", 1650>>, <<"1.5", 450>>, <<"0.5", 150>>}

FloatStrings == {p[1] : p \in FloatTable}

FloatOf(s) == (CHOOSE p \in FloatTable : p[1] = s)[2]

(***************************************************************************)
(* TimelineModel                                                           *)
(***************************************************************************)
EmptyTracks == [tr \in TrackSet |-> <<>>]

\* TimelineModel.__init__
NewModel == [tracks |-> EmptyTracks, duration |-> MinDuration, next_id |-> 1,
             dirty |-> FALSE, project_file |-> NONE]

\* _eff_duration without the floor of one tick
EffDuration_M(track, k) ==
  LET base == DEFAULT_TRACK_DURATIONS[track]
      d == Get(k.data, "duration", base)
  IN  IF track \in {"MENU", "LOGIC"}
        THEN IF d > 0 THEN d ELSE base
        ELSE d

\* TimelineModel._eff_duration
EffDuration(track, k) ==
  LET base == DEFAULT_TRACK_DURATIONS[track]
      d == Get(k.data, "duration", base)
  IN  IF track \in {"MENU", "LOGIC"}
        THEN Max(IF d > 0 THEN d ELSE base, TICK_SEC)
        ELSE Max(d, TICK_SEC)

KfEnd(track, k) == k.t + EffDuration(track, k)

\* list.sort(key=lambda k: k.t): stable, ascending
RECURSIVE InsertByT(_, _)
InsertByT(sorted, k) ==
  IF sorted = <<>> THEN <<k>>
  ELSE IF sorted[Len(sorted)].t <= k.t THEN Append(sorted, k)
  ELSE Append(InsertByT(SubSeq(sorted, 1, Len(sorted) - 1), k), sorted[Len(sorted)])

RECURSIVE SortByT(_)
SortByT(arr) ==
  IF arr = <<>> THEN <<>>
  ELSE InsertByT(SortByT(SubSeq(arr, 1, Len(arr) - 1)), arr[Len(arr)])

\* round(t / TICK_SEC) * TICK_SEC, Python's round (ties to even)
SnapTime(t) ==
  LET q == t \div TICK_SEC
      r == t % TICK_SEC
  IN  IF 2 * r < TICK_SEC THEN q * TICK_SEC
      ELSE IF 2 * r > TICK_SEC THEN (q + 1) * TICK_SEC
      ELSE IF q % 2 = 0 THEN q * TICK_SEC ELSE (q + 1) * TICK_SEC

\* TimelineModel._recompute_duration
RECURSIVE LongestEnd(_, _, _)
LongestEnd(trs, i, j) ==
  IF i > Len(TRACKS) THEN 0
  ELSE IF j > Len(trs[TRACKS[i]]) THEN LongestEnd(trs, i + 1, 1)
  ELSE Max(KfEnd(TRACKS[i], trs[TRACKS[i]][j]), LongestEnd(trs, i, j + 1))

RecomputeDuration(trs) == Max(LongestEnd(trs, 1, 1), MinDuration)

\* TimelineModel.add_kf, as a function of the model
AddKf(m, track, t, data, snap) ==
  LET t1 == IF snap THEN SnapTime(t) ELSE t
      d1 == IF "value" \in DOMAIN data
              THEN Put(data, "value", NormalizeAsset(data.value)) ELSE data
      d2 == IF "duration" \in DOMAIN d1 THEN d1
            ELSE IF track = "MUSIC"
              THEN LET len == AudioLen(Get(d1, "value", ""))
                   IN  Put(d1, "duration",
                           IF len > 0 THEN len ELSE DEFAULT_TRACK_DURATIONS[track])
              ELSE Put(d1, "duration", DEFAULT_TRACK_DURATIONS[track])
      kf == [t |-> t1, id |-> m.next_id, data |-> d2]
      arr == SortByT(Append(m.tracks[track], kf))
  IN  [m EXCEPT !.tracks = [m.tracks EXCEPT ![track] = arr],
                !.duration = Max(m.duration, KfEnd(track, kf)),
                !.next_id = m.next_id + 1,
                !.dirty = TRUE]

\* self.tracks.get(track, []): an unknown track has no keyframes
Bucket(trs, track) == IF track \in DOMAIN trs THEN trs[track] ELSE <<>>

\* TimelineModel.find_kf: <<>> (None) or <<the first keyframe with that id>>
FindKf(trs, track, id) ==
  LET hits == SelectSeq(Bucket(trs, track), LAMBDA k : k.id = id)
  IN  IF hits = <<>> THEN <<>> ELSE <<hits[1]>>

\* TimelineModel.keyframes_at: (track, keyframe) with t0 < k.t <= t1, track by
\* track in TRACKS order, each track in list order
RECURSIVE KeyframesAtFrom(_, _, _, _)
KeyframesAtFrom(trs, i, lo, hi) ==
  IF i > Len(TRACKS) THEN <<>>
  ELSE LET tr == TRACKS[i]
           hit == SelectSeq(trs[tr], LAMBDA k : lo < k.t /\ k.t <= hi)
       IN  [n \in 1..Len(hit) |-> [track |-> tr, kf |-> hit[n]]]
             \o KeyframesAtFrom(trs, i + 1, lo, hi)

\* keyframes_at over the closed interval [t0, t1]
KeyframesAt_M(trs, t0, t1) ==
  IF t1 < t0 THEN KeyframesAtFrom(trs, 1, t1 - 1, t0)
  ELSE KeyframesAtFrom(trs, 1, t0 - 1, t1)

KeyframesAt(trs, t0, t1) ==
  IF t1 < t0 THEN KeyframesAtFrom(trs, 1, t1, t0) ELSE KeyframesAtFrom(trs, 1, t0, t1)

(***************************************************************************)
(* Layers                                                                  *)
(***************************************************************************)
\* Layers.active_blocks
ActiveBlocks(trs, track, t) ==
  SortByT(SelectSeq(trs[track], LAMBDA k : k.t <= t /\ t <= KfEnd(track, k)))

Last(seq) == seq[Len(seq)]

\* int(): truncation toward zero of n / d, d > 0
Trunc(n, d) == IF n >= 0 THEN n \div d ELSE -((-n) \div d)

Clamp(lo, hi, x) == Max(lo, Min(hi, x))

\* resolve_asset_path: the absolute location of a root-relative asset value
ResolveAsset(value) == [root |-> "/proj", rel |-> value]

\* Layers.sprite_rect_opacity: positions, sizes and opacities are in 1/1000 of
\* the viewport; the pose is interpolated over the elapsed part e of the
\* effective duration dur
SpriteRectOpacity(k, t) ==
  LET d == k.data
      x1 == Get(d, "x", 500)
      y1 == Get(d, "y", 620)
      w1 == Get(d, "w", 260)
      h1 == Get(d, "h", 460)
      op1 == Get(d, "opacity", 1000)
      x2 == Get(d, "x2", x1)
      y2 == Get(d, "y2", y1)
      w2 == Get(d, "w2", w1)
      h2 == Get(d, "h2", h1)
      op2 == Get(d, "opacity2", op1)
      dur == EffDuration("SPRITE", k)
      e == Clamp(0, dur, t - k.t)
      lerp(a, b) == a * dur + (b - a) * e
      x == lerp(x1, x2)
      y == lerp(y1, y2)
      w == lerp(w1, w2)
      h == lerp(h1, h2)
  IN  [rect |-> [x |-> Trunc((2 * x - w) * GameW, 2000 * dur),
                 y |-> Trunc((2 * y - h) * GameH, 2000 * dur),
                 w |-> Trunc(GameW * w, 1000 * dur),
                 h |-> Trunc(GameH * h, 1000 * dur)],
       op |-> lerp(op1, op2) \div dur]

(***************************************************************************)
(* Strings: str.lower() and str.strip() on the words the timelines use.    *)
(***************************************************************************)
Lower(s) ==
  CASE s = "Jump" -> "jump"
    [] s = "GOTO" -> "goto"
    [] s = "Label" -> "label"
    [] s = "PAUSE" -> "pause"
    [] s = "Contain" -> "contain"
    [] OTHER -> s

Strip(s) ==
  CASE s = " Start" -> "Start"
    [] s = " " -> ""
    [] OTHER -> s

\* str(x) of a float: digits, a point and at least one decimal
ReprOf(x) ==
  CASE x = 3000 -> "10.0"
    [] x = 1500 -> "5.0"
    [] x = 1650 -> "5.5"
    [] x = 750 -> "2.5"
    [] x = 0 -> "0.0"

(***************************************************************************)
(* vngen.logic.parse_script.  A script text is given split at ";" and at   *)
(* white space: a sequence of commands, each a sequence of words.          *)
(***************************************************************************)
RECURSIVE ParseScript(_)
ParseScript(script) ==
  IF script = <<>> THEN <<>>
  ELSE LET parts == script[1]
           rest == ParseScript(Tail(script))
       IN  IF parts = <<>> THEN rest
           ELSE LET cmd == Lower(parts[1])
                    arg == IF Len(parts) > 1 THEN parts[2] ELSE ""
                IN  IF cmd \in {"jump", "goto", "loop"}
                      THEN <<[type |-> IF cmd = "goto" THEN "jump" ELSE cmd,
                              target |-> arg]>> \o rest
                    ELSE IF cmd \in {"pause", "stop", "resume", "play"}
                      THEN <<[type |-> cmd]>> \o rest
                    ELSE rest

(***************************************************************************)
(* GameCore (core.py): the layer inputs the widget pushes.  cps is in      *)
(* characters per 10 s, alphas and opacities in 1/1000.                    *)
(***************************************************************************)
\* GameCore.__init__
NewGame ==
  [dialog |-> [speaker |-> "", text |-> "", cps |-> 10 * DefaultCps,
               start |-> -UnitsPerSecond, end |-> -UnitsPerSecond],
   bg_img |-> NONE, bg_prev |-> NONE, bg_xfade |-> 0, bg_xstart |-> 0,
   bg_fit |-> "cover", bg_align |-> "center", bg_zoom |-> 100,
   spr_img |-> NONE, spr_prev |-> NONE, spr_xfade |-> 0, spr_xstart |-> 0,
   spr_rect |-> [x |-> Trunc(GameW * 37, 100), y |-> Trunc(GameH * 28, 100),
                 w |-> Trunc(GameW * 26, 100), h |-> Trunc(GameH * 46, 100)],
   spr_opacity |-> 1000,
   fx_mode |-> NONE, fx_color |-> "#000000", fx_from |-> 0, fx_to |-> 0,
   fx_start |-> 0, fx_dur |-> 0,
   shake_start |-> -UnitsPerSecond, shake_dur |-> 0, shake_amp |-> 0]

\* GameCore._load_image: the image of an existing file, else None
LoadImage(value) ==
  IF value # "" /\ IsFile(ResolveAsset(value)) THEN value ELSE NONE

\* GameCore.set_dialog
SetDialog(g, speaker, text, cps, t_start, t_end) ==
  [g EXCEPT !.dialog = [speaker |-> speaker, text |-> text, cps |-> Max(10, cps),
                        start |-> t_start, end |-> t_end]]

ClearDialog(g) ==
  SetDialog(g, "", "", 10 * DefaultCps, -UnitsPerSecond, -UnitsPerSecond)

\* GameCore.set_backgrounds_ex
SetBackgroundsEx(g, cur, prev, xfade, xstart, fit, align, zoom) ==
  [g EXCEPT !.bg_img = LoadImage(cur), !.bg_prev = LoadImage(prev),
            !.bg_xfade = Max(0, xfade), !.bg_xstart = xstart,
            !.bg_fit = Lower(fit), !.bg_align = align, !.bg_zoom = zoom]

\* GameCore.set_sprite_layers; a desc is <<>> (None) or <<[path, rect, op]>>
SetSpriteLayers(g, cur, prev, xfade, xstart) ==
  LET g1 == IF cur = <<>> THEN [g EXCEPT !.spr_img = NONE]
            ELSE [g EXCEPT !.spr_img = LoadImage(cur[1].path),
                           !.spr_rect = cur[1].rect,
                           !.spr_opacity = Clamp(0, 1000, cur[1].op)]
  IN  [g1 EXCEPT !.spr_prev = IF prev = <<>> THEN NONE ELSE LoadImage(prev[1].path),
                 !.spr_xfade = Max(0, xfade), !.spr_xstart = xstart]

\* GameCore.set_fx_overlay
SetFxOverlay(g, mode, dur, fa, ta, start, color) ==
  [g EXCEPT !.fx_mode = mode, !.fx_dur = Max(0, dur),
            !.fx_from = Clamp(0, 1000, fa), !.fx_to = Clamp(0, 1000, ta),
            !.fx_start = start, !.fx_color = color]

\* GameCore.start_shake
StartShake(g, start, dur, amp) ==
  [g EXCEPT !.shake_start = start, !.shake_dur = Max(0, dur),
            !.shake_amp = Max(0, amp)]

\* len() of the dialog texts of the timelines
StrLen(s) ==
  CASE s = "" -> 0
    [] s = "Hi" -> 2
    [] s = "Bye" -> 3
    [] s = "Hello" -> 5
    [] s = "World" -> 5

\* shake_offset that keeps shaking after the duration has passed
ShakeOffset_M(elapsed, duration, amplitude, env, nx, ny) ==
  IF duration <= 0 \/ elapsed < 0 \/ amplitude <= 0 THEN <<0, 0>>
  ELSE <<Trunc(amplitude * env * nx, 1000000), Trunc(amplitude * env * ny, 1000000)>>

\* effects.shake_offset: (dx, dy) in pixels.  The envelope exp(-decay * p) and
\* the two noise values (sums of sines of elapsed * frequency, seeded) are
\* taken as given, in thousandths: env in (0, 1], nx and ny in [-1, 1]
ShakeOffset(elapsed, duration, amplitude, env, nx, ny) ==
  IF duration <= 0 \/ elapsed < 0 \/ elapsed > duration \/ amplitude <= 0 THEN <<0, 0>>
  ELSE <<Trunc(amplitude * env * nx, 1000000), Trunc(amplitude * env * ny, 1000000)>>

\* GameCore.render_surface, the shake: the translation of the world layer at
\* the playhead
RenderShake(g, playhead, env, nx, ny) ==
  IF g.shake_dur > 0 /\ g.shake_start >= 0
    THEN ShakeOffset(playhead - g.shake_start, g.shake_dur, g.shake_amp, env, nx, ny)
    ELSE <<0, 0>>

\* GameCore.render_surface, the dialog: whether the box is drawn and how many
\* characters of the text are typed at the playhead
RenderDialog(g, playhead) ==
  LET d == g.dialog
      active == /\ 0 <= d.start /\ d.start <= playhead /\ playhead <= d.end
                /\ (d.speaker # "" \/ d.text # "")
      n == (Max(0, playhead - d.start) * d.cps) \div (10 * UnitsPerSecond)
  IN  [active |-> active,
       typed |-> IF active THEN Min(StrLen(d.text), n) ELSE 0]

\* GameCore.render_surface, the background: the image drawn and whether it is
\* blended with the previous one at the playhead
RenderBg(g, playhead) ==
  [img |-> g.bg_img,
   crossfade |-> /\ g.bg_img # NONE /\ g.bg_prev # NONE /\ g.bg_xfade > 0
                 /\ g.bg_xstart <= playhead /\ playhead <= g.bg_xstart + g.bg_xfade]

\* GameCore.render_surface, the background: the alpha (0..255) the previous
\* and the current image are drawn with at the playhead; an image drawn
\* without an alpha is opaque, one that is not drawn has none.  int() of
\* 255 * t and of 255 * (1 - t), t = (playhead - bg_xstart) / bg_xfade
RenderBgBlend(g, playhead) ==
  IF g.bg_img = NONE THEN [prev |-> 0, cur |-> 0]
  ELSE IF RenderBg(g, playhead).crossfade
    THEN [prev |-> (255 * (g.bg_xfade - (playhead - g.bg_xstart))) \div g.bg_xfade,
          cur |-> (255 * (playhead - g.bg_xstart)) \div g.bg_xfade]
  ELSE [prev |-> 0, cur |-> 255]

(***************************************************************************)
(* pygame.mixer.music (audio.py)                                           *)
(***************************************************************************)
NewMixer == [state |-> "idle", path |-> NONE, start |-> 0]

\* audio.stop_music: nothing is loaded at any position any more
StopMusic(a) == NewMixer

\* audio.play_music
PlayMusic(a, path, start) == [state |-> "playing", path |-> path, start |-> Max(0, start)]

(***************************************************************************)
(* GameWidget (vngen/widget.py).  The operators below take and return the  *)
(* run-time state s = [w: widget fields, g: GameCore, a: mixer, ev: what   *)
(* the running handler did so far].                                        *)
(***************************************************************************)
NoLabels == [n \in {} |-> 0]

\* GameWidget.__init__
NewWidget ==
  [playhead |-> 0, playing |-> FALSE,
   dialog_end |-> -UnitsPerSecond, music_end |-> -UnitsPerSecond,
   mute_sfx |-> FALSE, mute_music |-> FALSE,
   label_index |-> NoLabels,
   menu_active |-> FALSE, menu_prompt |-> "Choose:", menu_options |-> <<>>,
   menu_rects |-> 0, menu_btns |-> 0, menu_kf_id |-> <<>>,
   pending_jump |-> <<>>, music_paused |-> "unset"]

\* what a handler did: SFX played, keyframes entered, scripts run, the steps
\* it went through in the order they ran, the menu option it selected (-1:
\* none) and the target of that option
NoEvents == [sfx |-> <<>>, entered |-> <<>>, scripts |-> <<>>, logged |-> <<>>,
             steps |-> <<>>, looped |-> FALSE, jumped |-> FALSE, failed |-> FALSE,
             selected |-> -1, target |-> 0]

Did(s, step) == [s EXCEPT !.ev.steps = Append(@, step)]

\* a label index in which the first of several labels of a name wins
RebuildLabels_M(trs) ==
  LET arr == trs["LOGIC"]
      NameOf(k) == Strip(Get(k.data, "name", ""))
      IsLabel(k) == Lower(Get(k.data, "type", "")) = "label" /\ NameOf(k) # ""
      labels == {i \in 1..Len(arr) : IsLabel(arr[i])}
      FirstOf(n) == CHOOSE i \in labels :
                      /\ NameOf(arr[i]) = n
                      /\ \A j \in labels : NameOf(arr[j]) = n => i <= j
  IN  [n \in {NameOf(arr[i]) : i \in labels} |-> arr[FirstOf(n)].t]

\* GameWidget._rebuild_labels
RebuildLabels(trs) ==
  LET arr == trs["LOGIC"]
      NameOf(k) == Strip(Get(k.data, "name", ""))
      IsLabel(k) == Lower(Get(k.data, "type", "")) = "label" /\ NameOf(k) # ""
      labels == {i \in 1..Len(arr) : IsLabel(arr[i])}
      LastOf(n) == CHOOSE i \in labels :
                     /\ NameOf(arr[i]) = n
                     /\ \A j \in labels : NameOf(arr[j]) = n => j <= i
  IN  [n \in {NameOf(arr[i]) : i \in labels} |-> arr[LastOf(n)].t]

\* _resolve_target_to_time that reads the target as a number first
ResolveTargetToTime_M(labels, target, default) ==
  IF target \in FloatStrings THEN FloatOf(target)
  ELSE IF target \in DOMAIN labels THEN labels[target]
  ELSE default

\* GameWidget._resolve_target_to_time
ResolveTargetToTime(labels, target, default) ==
  IF target \in DOMAIN labels THEN labels[target]
  ELSE IF target \in FloatStrings THEN FloatOf(target)
  ELSE default

\* str(d.get("target", d.get("to", ""))): the target as text
TargetRaw(d) ==
  IF "target" \in DOMAIN d THEN d.target
  ELSE IF "to" \in DOMAIN d THEN ReprOf(d.to)
  ELSE ""

\* _apply_dialog_block that starts the typing where the playhead stands
ApplyDialogBlock_M(s, k) ==
  LET eff_end == KfEnd("DIALOG", k)
  IN  [s EXCEPT !.g = SetDialog(s.g, Get(k.data, "speaker", ""), Get(k.data, "text", ""),
                                Get(k.data, "cps", 10 * DefaultCps), s.w.playhead, eff_end),
                !.w.dialog_end = eff_end]

\* GameWidget._apply_dialog_block
ApplyDialogBlock(s, k) ==
  LET eff_end == KfEnd("DIALOG", k)
  IN  [s EXCEPT !.g = SetDialog(s.g, Get(k.data, "speaker", ""), Get(k.data, "text", ""),
                                Get(k.data, "cps", 10 * DefaultCps), k.t, eff_end),
                !.w.dialog_end = eff_end]

\* _start_music_block that always starts the file at its beginning
StartMusicBlock_M(s, k, offset) ==
  IF s.w.mute_music THEN s
  ELSE LET value == Get(k.data, "value", "")
       IN  IF IsFile(ResolveAsset(value))
             THEN [s EXCEPT !.a = PlayMusic(s.a, value, 0),
                            !.w.music_end = KfEnd("MUSIC", k),
                            !.w.music_paused = "no"]
             ELSE [s EXCEPT !.a = StopMusic(s.a),
                            !.w.music_end = -UnitsPerSecond,
                            !.w.music_paused = "no"]

\* GameWidget._start_music_block
StartMusicBlock(s, k, offset) ==
  IF s.w.mute_music THEN s
  ELSE LET value == Get(k.data, "value", "")
       IN  IF IsFile(ResolveAsset(value))
             THEN [s EXCEPT !.a = PlayMusic(s.a, value, offset),
                            !.w.music_end = KfEnd("MUSIC", k),
                            !.w.music_paused = "no"]
             ELSE [s EXCEPT !.a = StopMusic(s.a),
                            !.w.music_end = -UnitsPerSecond,
                            !.w.music_paused = "no"]

\* a resync that also plays the sounds whose block holds the landing time
SyncStatesForCurrentTime_M(s, trs) ==
  LET t == s.w.playhead
      Reset(x) == [x EXCEPT !.w.dialog_end = -UnitsPerSecond,
                            !.w.music_end = -UnitsPerSecond,
                            !.w.music_paused = "no",
                            !.a = StopMusic(x.a),
                            !.w.menu_active = FALSE,
                            !.w.menu_rects = 0,
                            !.w.menu_options = <<>>,
                            !.w.menu_btns = 0,
                            !.w.menu_kf_id = <<>>]
      Dialog(x) ==
        LET dlg == ActiveBlocks(trs, "DIALOG", t)
        IN  IF dlg # <<>> THEN ApplyDialogBlock(x, Last(dlg))
            ELSE [x EXCEPT !.g = ClearDialog(x.g)]
      Music(x) ==
        LET mus == ActiveBlocks(trs, "MUSIC", t)
        IN  IF x.w.playing /\ mus # <<>> /\ ~x.w.mute_music
              THEN StartMusicBlock(x, Last(mus), t - Last(mus).t)
              ELSE x
      Sounds(x) ==
        LET sfx == ActiveBlocks(trs, "SFX", t)
        IN  [x EXCEPT !.ev.sfx = @ \o [i \in 1..Len(sfx) |-> sfx[i].id]]
  IN  Did(Sounds(Music(Dialog(Reset(s)))), "sync")

\* GameWidget._sync_states_for_current_time
SyncStatesForCurrentTime(s, trs) ==
  LET t == s.w.playhead
      Reset(x) == [x EXCEPT !.w.dialog_end = -UnitsPerSecond,
                            !.w.music_end = -UnitsPerSecond,
                            !.w.music_paused = "no",
                            !.a = StopMusic(x.a),
                            !.w.menu_active = FALSE,
                            !.w.menu_rects = 0,
                            !.w.menu_options = <<>>,
                            !.w.menu_btns = 0,
                            !.w.menu_kf_id = <<>>]
      Dialog(x) ==
        LET dlg == ActiveBlocks(trs, "DIALOG", t)
        IN  IF dlg # <<>> THEN ApplyDialogBlock(x, Last(dlg))
            ELSE [x EXCEPT !.g = ClearDialog(x.g)]
      Music(x) ==
        LET mus == ActiveBlocks(trs, "MUSIC", t)
        IN  IF x.w.playing /\ mus # <<>> /\ ~x.w.mute_music
              THEN StartMusicBlock(x, Last(mus), t - Last(mus).t)
              ELSE x
  IN  Did(Music(Dialog(Reset(s))), "sync")

\* GameWidget._bg_params
BgParams(k) ==
  [fit |-> Lower(Get(k.data, "fit", "cover")),
   align |-> Get(k.data, "align", "center"),
   zoom |-> Get(k.data, "zoom", 100)]

\* the BG part taking the first active block as the previous one even when it
\* is the only one
UpdateBg_M(g, trs, t) ==
  LET ov == ActiveBlocks(trs, "BG", t)
  IN  IF ov = <<>>
        THEN SetBackgroundsEx(g, "", "", 0, 0, "cover", "center", 100)
      ELSE LET cur == Last(ov)
               p == BgParams(cur)
               prev == ov[Max(1, Len(ov) - 1)]
               overlap == KfEnd("BG", prev) - cur.t
           IN  IF overlap > 0
                 THEN SetBackgroundsEx(g, Get(cur.data, "value", ""),
                                       Get(prev.data, "value", ""),
                                       overlap, cur.t, p.fit, p.align, p.zoom)
                 ELSE SetBackgroundsEx(g, Get(cur.data, "value", ""), "", 0, 0,
                                       p.fit, p.align, p.zoom)

\* GameWidget._update_visual_layers, BG part
UpdateBg(g, trs, t) ==
  LET ov == ActiveBlocks(trs, "BG", t)
  IN  IF ov = <<>>
        THEN SetBackgroundsEx(g, "", "", 0, 0, "cover", "center", 100)
      ELSE LET cur == Last(ov)
               p == BgParams(cur)
               cur_path == Get(cur.data, "value", "")
           IN  IF Len(ov) = 1
                 THEN SetBackgroundsEx(g, cur_path, "", 0, 0, p.fit, p.align, p.zoom)
               ELSE LET prev == ov[Len(ov) - 1]
                        overlap == KfEnd("BG", prev) - cur.t
                    IN  IF overlap > 0
                          THEN SetBackgroundsEx(g, cur_path, Get(prev.data, "value", ""),
                                                overlap, cur.t, p.fit, p.align, p.zoom)
                          ELSE SetBackgroundsEx(g, cur_path, "", 0, 0,
                                                p.fit, p.align, p.zoom)

\* GameWidget._update_visual_layers, SPRITE part
UpdateSprite(g, trs, t) ==
  LET ov == ActiveBlocks(trs, "SPRITE", t)
      Desc(k, op) == <<[path |-> Get(k.data, "value", ""),
                        rect |-> SpriteRectOpacity(k, t).rect, op |-> op]>>
  IN  IF ov = <<>> THEN SetSpriteLayers(g, <<>>, <<>>, 0, 0)
      ELSE LET cur == Last(ov)
               cur_desc == Desc(cur, SpriteRectOpacity(cur, t).op)
           IN  IF Len(ov) = 1 THEN SetSpriteLayers(g, cur_desc, <<>>, 0, 0)
               ELSE LET prev == ov[Len(ov) - 1]
                        overlap == KfEnd("SPRITE", prev) - cur.t
                    IN  IF overlap > 0
                          THEN SetSpriteLayers(g, cur_desc, Desc(prev, 1000),
                                               overlap, cur.t)
                          ELSE SetSpriteLayers(g, cur_desc, <<>>, 0, 0)

\* GameWidget._update_visual_layers, FX part
UpdateFx(g, trs, t) ==
  LET ov == ActiveBlocks(trs, "FX", t)
  IN  IF ov = <<>> THEN SetFxOverlay(g, NONE, 0, 0, 0, t, "#000000")
      ELSE LET fxk == Last(ov)
               d == fxk.data
               mode == Lower(Get(d, "mode", ""))
               dur == Get(d, "duration", DefaultFxDur)
               fa == Get(d, "from_alpha", Get(d, "from", 0))
               ta == Get(d, "to_alpha", Get(d, "to", 1000))
           IN  IF mode \in {"black", "white", "translucent"}
                 THEN SetFxOverlay(g, mode, dur, fa, ta, fxk.t, Get(d, "color", "#000000"))
               ELSE IF mode = "shake"
                 THEN StartShake(g, fxk.t, dur, Get(d, "amplitude", 16))
               ELSE g

\* a MENU option that is a dict (the others are shown by their str())
IsDictOption(opt) == "raw" \notin DOMAIN opt

\* the option rows of GameWidget._update_visual_layers: text and target of
\* each option resolved to a time, script and logic kept
NormalizeOption(opt, labels, t) ==
  IF ~IsDictOption(opt) THEN [text |-> opt.raw, to |-> t]
  ELSE LET text == IF Strip(Get(opt, "text", "")) = "" THEN "(option)"
                   ELSE Strip(opt.text)
           row0 == [text |-> text, to |-> ResolveTargetToTime(labels, TargetRaw(opt), t)]
           row1 == IF Get(opt, "script", <<>>) # <<>>
                     THEN Put(row0, "script", opt.script) ELSE row0
           row2 == IF Get(opt, "script_path", "") # ""
                     THEN Put(row1, "script_path", opt.script_path) ELSE row1
       IN  IF "logic" \in DOMAIN opt THEN Put(row2, "logic", opt.logic) ELSE row2

NormalizeOptions(opts, labels, t) ==
  [i \in 1..Len(opts) |-> NormalizeOption(opts[i], labels, t)]

\* the menu of the earliest-starting active MENU keyframe, not the latest
UpdateMenu_M(w, trs, t) ==
  LET ov == ActiveBlocks(trs, "MENU", t)
  IN  IF ov = <<>> THEN w
      ELSE LET mk == ov[1]
           IN  [w EXCEPT !.menu_kf_id = <<mk.id>>,
                         !.menu_prompt = Get(mk.data, "prompt", "Choose:"),
                         !.menu_options =
                            NormalizeOptions(Get(mk.data, "options", <<>>),
                                             w.label_index, t),
                         !.playing = FALSE,
                         !.menu_active = TRUE]

\* a menu that opens without pausing playback
UpdateMenu_MRun(w, trs, t) ==
  LET ov == ActiveBlocks(trs, "MENU", t)
  IN  IF ov = <<>> THEN w
      ELSE LET mk == Last(ov)
           IN  [w EXCEPT !.menu_kf_id = <<mk.id>>,
                         !.menu_prompt = Get(mk.data, "prompt", "Choose:"),
                         !.menu_options =
                            NormalizeOptions(Get(mk.data, "options", <<>>),
                                             w.label_index, t),
                         !.menu_active = TRUE]

\* GameWidget._update_visual_layers, MENU part
UpdateMenu(w, trs, t) ==
  LET ov == ActiveBlocks(trs, "MENU", t)
  IN  IF ov = <<>> THEN w
      ELSE LET mk == Last(ov)
           IN  [w EXCEPT !.menu_kf_id = <<mk.id>>,
                         !.menu_prompt = Get(mk.data, "prompt", "Choose:"),
                         !.menu_options =
                            NormalizeOptions(Get(mk.data, "options", <<>>),
                                             w.label_index, t),
                         !.playing = FALSE,
                         !.menu_active = TRUE]

\* GameWidget._update_visual_layers
UpdateVisualLayers(s, trs) ==
  LET t == s.w.playhead
  IN  Did([s EXCEPT !.g = UpdateFx(UpdateSprite(UpdateBg(s.g, trs, t), trs, t), trs, t),
                    !.w = UpdateMenu(s.w, trs, t)],
          "layers")

\* GameWidget._exec_logic_action; d is a dict or a LogicAction
ExecLogicAction(s, d) ==
  LET t == Lower(Get(d, "type", ""))
  IN  IF t \in {"jump", "goto", "loop"}
        THEN [s EXCEPT !.w.pending_jump =
                <<ResolveTargetToTime(s.w.label_index, TargetRaw(d), s.w.playhead)>>]
      ELSE IF t \in {"pause", "stop"} THEN [s EXCEPT !.w.playing = FALSE]
      ELSE IF t \in {"resume", "play"} THEN [s EXCEPT !.w.playing = TRUE]
      ELSE s

RECURSIVE ExecLogicActions(_, _)
ExecLogicActions(s, acts) ==
  IF acts = <<>> THEN s
  ELSE ExecLogicActions(ExecLogicAction(s, acts[1]), Tail(acts))

\* what the script files do: one cannot be read, one does not compile, one
\* defines a run(ctx) that raises; any other is a callable that changes
\* nothing
ScriptOf(path) ==
  CASE path = "locked.py" -> "read error"
    [] path = "bad.py" -> "exec error"
    [] path = "boom.py" -> "run error"
    [] OTHER -> "ok"

\* _run_script_asset without its try/except: the error of a script leaves the
\* handler as an exception
RunScriptAsset_M(s, path) ==
  LET called == [s EXCEPT !.ev.scripts = Append(@, path)]
  IN  IF path = "" \/ ~IsFile(ResolveAsset(path))
        THEN [called EXCEPT !.ev.logged = Append(@, "missing")]
      ELSE IF ScriptOf(path) = "ok" THEN called
      ELSE [called EXCEPT !.ev.failed = TRUE]

\* GameWidget._run_script_asset: a missing file, a read error, a compile or
\* exec error and an exception of run/main are each caught, logged, and change
\* nothing
RunScriptAsset(s, path) ==
  LET called == [s EXCEPT !.ev.scripts = Append(@, path)]
  IN  IF path = "" \/ ~IsFile(ResolveAsset(path))
        THEN [called EXCEPT !.ev.logged = Append(@, "missing")]
      ELSE IF ScriptOf(path) = "ok" THEN called
      ELSE [called EXCEPT !.ev.logged = Append(@, ScriptOf(path))]

\* GameWidget._apply_keyframe_enter
ApplyKeyframeEnter(s, track, k) ==
  LET d == k.data
      s0 == [s EXCEPT !.ev.entered = Append(@, [track |-> track, id |-> k.id])]
  IN  CASE track = "DIALOG" -> ApplyDialogBlock(s0, k)
        [] track = "SFX" ->
             IF ~s0.w.mute_sfx /\ IsFile(ResolveAsset(Get(d, "value", "")))
               THEN [s0 EXCEPT !.ev.sfx = Append(@, k.id)]
               ELSE s0
        [] track = "MUSIC" -> StartMusicBlock(s0, k, 0)
        [] track = "LOGIC" ->
             LET s1 == ExecLogicAction(s0, d)
                 script_path == Get(d, "script_path", Get(d, "script_asset", ""))
             IN  IF script_path # "" THEN RunScriptAsset(s1, script_path) ELSE s1
        [] OTHER -> s0

RECURSIVE ApplyEnters(_, _)
ApplyEnters(s, hits) ==
  IF hits = <<>> \/ s.ev.failed THEN s
  ELSE ApplyEnters(ApplyKeyframeEnter(s, hits[1].track, hits[1].kf), Tail(hits))

\* GameWidget._run_menu_option
RunMenuOption(s, idx) ==
  IF ~(0 <= idx /\ idx < Len(s.w.menu_options)) THEN s
  ELSE LET opt == s.w.menu_options[idx + 1]
           s1 == ExecLogicActions(s, Get(opt, "logic", <<>>))
           s2 == ExecLogicActions(s1, ParseScript(Get(opt, "script", <<>>)))
           script_asset == Get(opt, "script_path", "")
       IN  IF script_asset # "" THEN RunScriptAsset(s2, script_asset) ELSE s2

\* scrub_to that leaves a pending jump in its slot
ScrubTo_M(s, m, t) ==
  LET s1 == [s EXCEPT !.w.playhead = Clamp(0, m.duration, t)]
  IN  UpdateVisualLayers(SyncStatesForCurrentTime(s1, m.tracks), m.tracks)

\* GameWidget.scrub_to
ScrubTo(s, m, t) ==
  LET s1 == [s EXCEPT !.w.playhead = Clamp(0, m.duration, t),
                      !.w.pending_jump = <<>>]
  IN  UpdateVisualLayers(SyncStatesForCurrentTime(s1, m.tracks), m.tracks)

\* stop that rewinds without resynchronising
StopPlayback_M(s, m) ==
  [s EXCEPT !.w.playing = FALSE, !.w.playhead = 0, !.w.pending_jump = <<>>,
            !.w.music_paused = "no"]

\* GameWidget.stop
StopPlayback(s, m) ==
  [ScrubTo([s EXCEPT !.w.playing = FALSE], m, 0) EXCEPT !.w.music_paused = "no"]

\* GameWidget._pause_active_audio
PauseActiveAudio(s) ==
  IF s.w.mute_music THEN s
  ELSE IF s.a.state = "playing"
    THEN [s EXCEPT !.a.state = "paused", !.w.music_paused = "yes"]
    ELSE s

\* GameWidget._ensure_music_for_current_time
EnsureMusicForCurrentTime(s, trs) ==
  LET blocks == ActiveBlocks(trs, "MUSIC", s.w.playhead)
  IN  IF s.w.mute_music \/ blocks = <<>> THEN s
      ELSE StartMusicBlock(s, Last(blocks), s.w.playhead - Last(blocks).t)

\* GameWidget._resume_or_realign_audio; _music_paused is not set by __init__,
\* and reading it before any handler has set it raises AttributeError
ResumeOrRealignAudio(s, trs) ==
  IF s.w.mute_music THEN s
  ELSE IF s.w.music_paused = "unset" THEN [s EXCEPT !.ev.failed = TRUE]
  ELSE IF s.w.music_paused = "yes"
    THEN [s EXCEPT !.a.state = IF s.a.state = "paused" THEN "playing" ELSE s.a.state,
                   !.w.music_paused = "no"]
  ELSE EnsureMusicForCurrentTime(s, trs)

\* toggle_play without its menu guard
TogglePlay_M(s, m) ==
  IF s.w.playing THEN PauseActiveAudio([s EXCEPT !.w.playing = FALSE])
  ELSE ResumeOrRealignAudio([s EXCEPT !.w.playing = TRUE], m.tracks)

\* GameWidget.toggle_play
TogglePlay(s, m) ==
  IF s.w.menu_active THEN s
  ELSE IF s.w.playing THEN PauseActiveAudio([s EXCEPT !.w.playing = FALSE])
  ELSE ResumeOrRealignAudio([s EXCEPT !.w.playing = TRUE], m.tracks)

\* GameWidget.play
Play(s, m) == IF ~s.w.playing THEN TogglePlay(s, m) ELSE s

\* GameWidget.pause
Pause(s, m) == IF s.w.playing THEN TogglePlay(s, m) ELSE s

\* the option-selection branch shared by keyPressEvent and mousePressEvent
SelectOption(s, m, idx) ==
  LET s1 == RunMenuOption(s, idx)
      target == Get(s1.w.menu_options[idx + 1], "to", s1.w.playhead)
      s2 == [s1 EXCEPT !.w.menu_active = FALSE, !.w.menu_rects = 0,
                       !.w.playing = TRUE,
                       !.ev.selected = idx, !.ev.target = target]
  IN  IF s1.ev.failed THEN s1 ELSE ScrubTo(s2, m, target)

Key_1 == 49
Key_9 == 57
Key_Space == 32

\* a numeric key beyond the last option closes the menu
KeyPressEvent_M(s, m, key) ==
  IF s.w.menu_active
    THEN IF Key_1 <= key /\ key <= Key_9 /\ key - Key_1 < Len(s.w.menu_options)
           THEN SelectOption(s, m, key - Key_1)
           ELSE IF Key_1 <= key /\ key <= Key_9
             THEN [s EXCEPT !.w.menu_active = FALSE]
             ELSE s
  ELSE IF key = Key_Space THEN TogglePlay(s, m)
  ELSE s

\* GameWidget.keyPressEvent
KeyPressEvent(s, m, key) ==
  IF s.w.menu_active
    THEN IF Key_1 <= key /\ key <= Key_9 /\ key - Key_1 < Len(s.w.menu_options)
           THEN SelectOption(s, m, key - Key_1)
           ELSE s
  ELSE IF key = Key_Space THEN TogglePlay(s, m)
  ELSE s

\* _tick looping back with the enter window (A, A]: nothing at A fires again
TickHead_M(w, m, lp, dt) ==
  LET adv == Min(m.duration, w.playhead + dt)
      looped == w.playing /\ lp.loop_enabled /\ lp.loop_b > lp.loop_a
                  /\ adv >= lp.loop_b
  IN  [looped |-> looped,
       head |-> IF looped THEN lp.loop_a ELSE adv,
       prev |-> IF looped THEN lp.loop_a ELSE w.playhead]

\* GameWidget._tick, the playhead of a playing tick: it advances by dt up to
\* the duration, or snaps back to A when the A/B loop is on and B is reached;
\* prev is the lower end of the window (prev, head] of keyframes to enter
TickHead(w, m, lp, dt) ==
  LET adv == Min(m.duration, w.playhead + dt)
      looped == w.playing /\ lp.loop_enabled /\ lp.loop_b > lp.loop_a
                  /\ adv >= lp.loop_b
  IN  [looped |-> looped,
       head |-> IF looped THEN lp.loop_a ELSE adv,
       prev |-> IF looped THEN lp.loop_a - TICK_SEC ELSE w.playhead]

\* the dialog and music blocks that ended before the playhead
TickGates(e) ==
  [e EXCEPT !.g = IF e.w.dialog_end >= 0 /\ e.w.playhead > e.w.dialog_end
                    THEN ClearDialog(e.g) ELSE e.g,
            !.a = IF e.w.music_end >= 0 /\ e.w.playhead > e.w.music_end
                    THEN StopMusic(e.a) ELSE e.a,
            !.w.music_paused = IF e.w.music_end >= 0 /\ e.w.playhead > e.w.music_end
                                 THEN "no" ELSE e.w.music_paused]

\* _tick advancing whether playback runs or not
TickAdvance_M(s, m, lp, dt) ==
  LET h == TickHead([s.w EXCEPT !.playing = TRUE], m, lp, dt)
  IN  Did(TickGates(Did(ApplyEnters([s EXCEPT !.w.playhead = h.head,
                                              !.ev.looped = h.looped],
                                    KeyframesAt(m.tracks, h.prev, h.head)),
                        "enters")),
          "gates")

\* _tick that closes the gates before it fires the enter events
TickAdvance_MGates(s, m, lp, dt) ==
  LET h == TickHead(s.w, m, lp, dt)
  IN  IF ~s.w.playing THEN s
      ELSE Did(ApplyEnters(Did(TickGates([s EXCEPT !.w.playhead = h.head,
                                                   !.ev.looped = h.looped]), "gates"),
                           KeyframesAt(m.tracks, h.prev, h.head)), "enters")

\* GameWidget._tick, the part under "if self._playing": advance or loop back,
\* fire the enter events, close what ended
TickAdvance(s, m, lp, dt) ==
  LET h == TickHead(s.w, m, lp, dt)
      Gates(e) == IF e.ev.failed THEN e ELSE Did(TickGates(Did(e, "enters")), "gates")
  IN  IF ~s.w.playing THEN s
      ELSE Gates(ApplyEnters([s EXCEPT !.w.playhead = h.head,
                                       !.ev.looped = h.looped],
                             KeyframesAt(m.tracks, h.prev, h.head)))

\* _tick resynchronising before the pending jump is applied, not after
Tick_M(s, m, lp, dt) ==
  LET trs == m.tracks
      \* the jump a LOGIC action asked for
      Jump(s1) ==
        IF s1.w.pending_jump # <<>>
          THEN Did([s1 EXCEPT !.w.playhead = Clamp(0, m.duration, s1.w.pending_jump[1]),
                              !.w.pending_jump = <<>>,
                              !.ev.jumped = TRUE], "jump")
          ELSE s1
      Resync(s2) ==
        IF s2.ev.looped \/ s2.w.pending_jump # <<>> THEN SyncStatesForCurrentTime(s2, trs) ELSE s2
  IN  UpdateVisualLayers(
        Jump(Resync(TickAdvance([s EXCEPT !.w.label_index = RebuildLabels(trs)],
                                m, lp, dt))), trs)

\* GameWidget._tick
Tick(s, m, lp, dt) ==
  LET trs == m.tracks
      \* the jump a LOGIC action asked for
      Jump(s1) ==
        IF s1.w.pending_jump # <<>>
          THEN Did([s1 EXCEPT !.w.playhead = Clamp(0, m.duration, s1.w.pending_jump[1]),
                              !.w.pending_jump = <<>>,
                              !.ev.jumped = TRUE], "jump")
          ELSE s1
      Resync(s2) ==
        IF s2.ev.looped \/ s2.ev.jumped THEN SyncStatesForCurrentTime(s2, trs) ELSE s2
      \* an exception of an enter event leaves the tick where it was raised
      Rest(e) == IF e.ev.failed THEN e ELSE UpdateVisualLayers(Resync(Jump(e)), trs)
  IN  Rest(TickAdvance([s EXCEPT !.w.label_index = RebuildLabels(trs)], m, lp, dt))

\* GameWidget.paintEvent / _draw_menu_overlay: lays out one row, with its three
\* edit buttons, per option
PaintEvent(s) ==
  IF s.w.menu_active
    THEN [s EXCEPT !.w.menu_rects = Len(s.w.menu_options),
                   !.w.menu_btns = Len(s.w.menu_options)]
    ELSE s

\* GameWidget.set_mutes
SetMutes(s, sfx, music) == [s EXCEPT !.w.mute_sfx = sfx, !.w.mute_music = music]

\* TimelineModel.touch
Touch(m) == [m EXCEPT !.dirty = TRUE]

\* GameWidget._refresh_active_menu_from_model
RefreshActiveMenuFromModel(w, trs) ==
  LET ov == ActiveBlocks(trs, "MENU", w.playhead)
  IN  IF ov = <<>>
        THEN [w EXCEPT !.menu_active = FALSE, !.menu_rects = 0, !.menu_btns = 0]
        ELSE [w EXCEPT !.menu_kf_id = <<Last(ov).id>>,
                       !.menu_prompt = Get(Last(ov).data, "prompt", "Choose:"),
                       !.menu_options =
                          NormalizeOptions(Get(Last(ov).data, "options", <<>>),
                                           w.label_index, w.playhead)]

\* GameWidget._edit_menu_option; ans is what the input dialog returns:
\* [ok, val].  Gives the run-time state and the model.
EditMenuOption(s, m, idx, field, ans) ==
  LET same == [s |-> s, m |-> m]
      hit == IF s.w.menu_kf_id = <<>> THEN <<>>
             ELSE FindKf(m.tracks, "MENU", s.w.menu_kf_id[1])
  IN  IF hit = <<>> THEN same
      ELSE LET kf == hit[1]
               opts == Get(kf.data, "options", <<>>)
           IN  IF ~(idx < Len(opts)) \/ ~ans.ok THEN same
               ELSE LET old == IF IsDictOption(opts[idx + 1]) THEN opts[idx + 1]
                               ELSE [text |-> opts[idx + 1].raw]
                        data == Put(kf.data, "options",
                                    [opts EXCEPT ![idx + 1] = Put(old, field, ans.val)])
                        arr == m.tracks["MENU"]
                        at == CHOOSE i \in 1..Len(arr) :
                                arr[i].id = kf.id /\ \A j \in 1..(i - 1) : arr[j].id # kf.id
                        m1 == Touch([m EXCEPT !.tracks["MENU"][at].data = data])
                    IN  [s |-> [s EXCEPT !.w = RefreshActiveMenuFromModel(s.w, m1.tracks)],
                         m |-> m1]

\* GameWidget.mousePressEvent.  A click is [button, idx, zone]: the row it
\* falls on (-1: none) and the part of the row, its body or one of the edit
\* buttons "text", "target", "script" drawn at its right end.  No sprite is
\* being edited, so a click without a menu is passed on.
MousePressEvent(s, m, click, ans) ==
  LET same == [s |-> s, m |-> m]
  IN  IF ~(s.w.menu_active /\ click.button = "left") THEN same
      ELSE IF click.idx < 0 THEN same
      ELSE IF click.zone # "body" /\ click.idx < s.w.menu_btns
        THEN EditMenuOption(s, m, click.idx, click.zone, ans)
      ELSE IF click.idx < s.w.menu_rects /\ click.idx < Len(s.w.menu_options)
        THEN [s |-> SelectOption(s, m, click.idx), m |-> m]
      ELSE same

(***************************************************************************)
(* Editing the timeline: the rest of TimelineModel (model.py), the         *)
(* property editor (MainWindow._apply_edit) and the timeline view          *)
(* (view.py).                                                              *)
(***************************************************************************)
\* TimelineModel.set_project_file; the asset root is the project file's
\* directory, or the working directory without one
SetProjectFile(m, filename) ==
  [m EXCEPT !.project_file = IF filename = "" THEN NONE ELSE filename]

AssetRoot(m) == IF m.project_file = NONE THEN "cwd" ELSE "/proj"

\* remove_kf that keeps the duration it finds
RemoveKf_M(m, track, kf_id) ==
  LET new_arr == SelectSeq(Bucket(m.tracks, track), LAMBDA k : k.id # kf_id)
  IN  IF Len(new_arr) = Len(Bucket(m.tracks, track)) THEN m
      ELSE Touch([m EXCEPT !.tracks[track] = new_arr])

\* remove_kf that notifies and marks the project dirty whatever it finds
RemoveKf_MTouch(m, track, kf_id) ==
  LET new_arr == SelectSeq(Bucket(m.tracks, track), LAMBDA k : k.id # kf_id)
  IN  IF Len(new_arr) = Len(Bucket(m.tracks, track)) THEN Touch(m)
      ELSE LET trs == [m.tracks EXCEPT ![track] = new_arr]
           IN  Touch([m EXCEPT !.tracks = trs, !.duration = RecomputeDuration(trs)])

\* TimelineModel.remove_kf
RemoveKf(m, track, kf_id) ==
  LET new_arr == SelectSeq(Bucket(m.tracks, track), LAMBDA k : k.id # kf_id)
  IN  IF Len(new_arr) = Len(Bucket(m.tracks, track)) THEN m
      ELSE LET trs == [m.tracks EXCEPT ![track] = new_arr]
           IN  Touch([m EXCEPT !.tracks = trs, !.duration = RecomputeDuration(trs)])

\* TimelineModel.delete_keyframes, the loop over (track, id): the tracks left
RECURSIVE DeleteFrom(_, _)
DeleteFrom(trs, items) ==
  IF items = <<>> THEN trs
  ELSE DeleteFrom([trs EXCEPT ![items[1][1]] =
                     SelectSeq(@, LAMBDA k : k.id # items[1][2])],
                  Tail(items))

\* TimelineModel.delete_keyframes
DeleteKeyframes(m, items) ==
  LET trs == DeleteFrom(m.tracks, items)
  IN  IF trs = m.tracks THEN m
      ELSE [m EXCEPT !.tracks = trs, !.duration = RecomputeDuration(trs),
                     !.dirty = TRUE]

\* A JSON document is [json, duration, tracks]: whether the text parses, the
\* "duration" member (<<>> when absent) and the "tracks" member in document
\* order, each [track, items].  A number is [num |-> TRUE, v]; a value float()
\* rejects is [num |-> FALSE].  An item is an object [obj |-> TRUE, t, id,
\* data], with id <<>> when absent, or something that is no object.
Num(v) == [num |-> TRUE, v |-> v]
NotNum == [num |-> FALSE, v |-> 0]

\* load_json, one entry of a track: st is [m, failed]
LoadItem(st, tr, it) ==
  IF ~it.obj \/ ~it.t.num THEN [st EXCEPT !.failed = TRUE]
  ELSE LET data == IF "value" \in DOMAIN it.data
                     THEN Put(it.data, "value", NormalizeAsset(it.data.value))
                     ELSE it.data
           given == it.id # <<>> /\ it.id[1] >= 0
           id == IF given THEN it.id[1] ELSE st.m.next_id
       IN  [st EXCEPT !.m.tracks[tr] = Append(@, [t |-> it.t.v, id |-> id, data |-> data]),
                      !.m.next_id = IF given THEN Max(@, id + 1) ELSE @ + 1]

\* load_json, the entries of one track, then the sort of its bucket; an entry
\* that raises ends the load where it stands
RECURSIVE LoadItems(_, _, _)
LoadItems(st, tr, items) ==
  IF items = <<>> THEN [st EXCEPT !.m.tracks[tr] = SortByT(@)]
  ELSE IF LoadItem(st, tr, items[1]).failed THEN LoadItem(st, tr, items[1])
  ELSE LoadItems(LoadItem(st, tr, items[1]), tr, Tail(items))

RECURSIVE LoadTracks(_, _)
LoadTracks(st, tracks) ==
  IF tracks = <<>> \/ st.failed THEN st
  ELSE LoadTracks(LoadItems(st, tracks[1].track, tracks[1].items), Tail(tracks))

\* TimelineModel.load_json with a project file given, as MainWindow._load
\* calls it: the model it leaves and whether it raised
LoadJson(m, doc, project_file) ==
  LET Fill(m2) == LoadTracks([m |-> m2, failed |-> FALSE], doc.tracks)
      Finish(st) ==
        IF st.failed THEN st
        ELSE [st EXCEPT !.m.duration = RecomputeDuration(st.m.tracks),
                        !.m.dirty = FALSE]
  IN  IF ~doc.json THEN [m |-> m, failed |-> TRUE]
      ELSE IF doc.duration # <<>> /\ ~doc.duration[1].num
        THEN [m |-> SetProjectFile(m, project_file), failed |-> TRUE]
      ELSE Finish(Fill([SetProjectFile(m, project_file) EXCEPT
                          !.duration = IF doc.duration = <<>> THEN MinDuration
                                       ELSE doc.duration[1].v,
                          !.tracks = EmptyTracks,
                          !.next_id = 1]))

\* the index of the keyframe find_kf returns
IndexOfKf(arr, kf_id) ==
  CHOOSE i \in 1..Len(arr) : arr[i].id = kf_id /\ \A j \in 1..(i - 1) : arr[j].id # kf_id

\* dict.update / item assignment for every key of upd
Merge(d, upd) ==
  [k \in (DOMAIN d) \cup (DOMAIN upd) |-> IF k \in DOMAIN upd THEN upd[k] ELSE d[k]]

\* dict.pop(key, None)
Drop(d, key) == [k \in (DOMAIN d) \ {key} |-> d[k]]

\* MainWindow._apply_edit; payload is [track, kf_id, t, data]
ApplyEdit(m, payload) ==
  LET tr == payload.track
      data == IF "value" \in DOMAIN payload.data
                THEN Put(payload.data, "value", NormalizeAsset(payload.data.value))
                ELSE payload.data
  IN  IF FindKf(m.tracks, tr, payload.kf_id) = <<>> THEN m
      ELSE LET at == IndexOfKf(m.tracks[tr], payload.kf_id)
               arr == SortByT([m.tracks[tr] EXCEPT ![at].t = payload.t,
                                                   ![at].data = Merge(@, data)])
               trs == [m.tracks EXCEPT ![tr] = arr]
           IN  Touch([m EXCEPT !.tracks = trs, !.duration = RecomputeDuration(trs)])

Abs(x) == IF x < 0 THEN -x ELSE x

\* TimelineView: the snap distance and the least length of a resized block,
\* both 50 ms
SnapTolerance == 15
MinResize == 15

\* round(t * 10) / 10.0: the nearest tenth of a second, ties to even
Round10(t) ==
  LET q == t \div Ds(1)
      r == t % Ds(1)
  IN  IF 2 * r < Ds(1) THEN q * Ds(1)
      ELSE IF 2 * r > Ds(1) THEN (q + 1) * Ds(1)
      ELSE IF q % 2 = 0 THEN q * Ds(1) ELSE (q + 1) * Ds(1)

\* TimelineView._snap, the start and end of every block of the track but the
\* ignored one
RECURSIVE SnapEdges(_, _, _)
SnapEdges(arr, tr, ignore_id) ==
  IF arr = <<>> THEN <<>>
  ELSE IF arr[1].id = ignore_id THEN SnapEdges(Tail(arr), tr, ignore_id)
  ELSE <<arr[1].t, KfEnd(tr, arr[1])>> \o SnapEdges(Tail(arr), tr, ignore_id)

\* TimelineView._snap: to a tenth of a second or the edge of a neighbour,
\* whichever is nearest (the first of equals), if within 50 ms; tr is NONE
\* and ignore_id is -1 when not given
ViewSnap(trs, t, tr, ignore_id) ==
  LET cands == <<Round10(t)>> \o
                 (IF tr = NONE THEN <<>> ELSE SnapEdges(trs[tr], tr, ignore_id))
      best == cands[CHOOSE i \in 1..Len(cands) :
                      /\ \A j \in 1..Len(cands) : Abs(cands[i] - t) <= Abs(cands[j] - t)
                      /\ \A j \in 1..(i - 1) : Abs(cands[j] - t) > Abs(cands[i] - t)]
  IN  IF Abs(best - t) <= SnapTolerance THEN best ELSE t

\* TimelineView._maybe_transition: on BG and SPRITE every "xfade" is dropped
\* and each block overlapping the next gets the overlap as "xfade", as does
\* that next one; the later pair overwrites the earlier
MaybeTransition(trs, tr) ==
  LET arr == trs[tr]
      Overlaps(i) == 1 <= i /\ i < Len(arr) /\ arr[i + 1].t < KfEnd(tr, arr[i])
      Overlap(i) == Max(0, KfEnd(tr, arr[i]) - arr[i + 1].t)
  IN  IF tr \notin {"BG", "SPRITE"} THEN trs
      ELSE [trs EXCEPT ![tr] =
              [i \in 1..Len(arr) |->
                 [arr[i] EXCEPT !.data =
                    IF Overlaps(i) THEN Put(Drop(@, "xfade"), "xfade", Overlap(i))
                    ELSE IF Overlaps(i - 1) THEN Put(Drop(@, "xfade"), "xfade", Overlap(i - 1))
                    ELSE Drop(@, "xfade")]]]

\* TimelineView.mouseMoveEvent with a block grabbed: sel is the (track, id)
\* selected by the press, mode "drag" or "resize", x_time the time under the
\* cursor, grab_dx the offset of the press into the block
MouseMoveEvent(m, sel, mode, x_time, grab_dx) ==
  LET tr == sel[1]
      t == ViewSnap(m.tracks, x_time, NONE, -1)
  IN  IF FindKf(m.tracks, tr, sel[2]) = <<>> THEN m
      ELSE LET at == IndexOfKf(m.tracks[tr], sel[2])
               k == m.tracks[tr][at]
               moved == SortByT([m.tracks[tr] EXCEPT ![at].t =
                                   ViewSnap(m.tracks, Max(0, t - grab_dx), tr, k.id)])
               sized == [m.tracks[tr] EXCEPT ![at].data =
                           Put(@, "duration", Max(k.t + MinResize, t) - k.t)]
           IN  [m EXCEPT !.tracks =
                  MaybeTransition(
                    [m.tracks EXCEPT ![tr] = IF mode = "drag" THEN moved ELSE sized], tr)]

\* TimelineView._delete_sel
DeleteSel(m, sel) ==
  [RemoveKf(m, sel[1], sel[2]) EXCEPT !.tracks = MaybeTransition(@, sel[1])]

(***************************************************************************)
(* The timelines playback starts from: a model filled by add_kf.           *)
(***************************************************************************)
RECURSIVE Build(_, _)
Build(m, adds) ==
  IF adds = <<>> THEN m
  ELSE Build(AddKf(m, adds[1].track, adds[1].t, adds[1].data, FALSE), Tail(adds))

\* the menu-branching scene: MENU at 5 s with the default duration, label
\* "Start" at 0
MenuScene ==
  Build(NewModel,
    <<[track |-> "MENU", t |-> Ds(50),
       data |-> [prompt |-> "Pick",
                 options |-> <<[text |-> "A", target |-> "10.0"],
                               [text |-> "B", target |-> "Start"]>>]],
      [track |-> "LOGIC", t |-> 0, data |-> [type |-> "label", name |-> "Start"]]>>)

\* a scene of nested menus: label "Start" at 1 s, a menu over [2 s, 5 s] with
\* a logic list, an inline script, a numeric "to" and an option that is no
\* dict, a second menu over [3 s, 3.5 s] inside it whose only target names no
\* label, a third one from 7 s on, and at 6 s a jump back to 2.5 s, into the
\* first menu
BranchScene ==
  Build(NewModel,
    <<[track |-> "LOGIC", t |-> Ds(10), data |-> [type |-> "label", name |-> "Start"]],
      [track |-> "MENU", t |-> Ds(20),
       data |-> [duration |-> Ds(30),
                 options |-> <<[text |-> " ", target |-> "Start",
                                logic |-> <<[type |-> "pause"],
                                            [type |-> "jump", target |-> "2.5"]>>],
                               [text |-> "B", to |-> Ds(55),
                                script |-> <<<<"GOTO", "Start">>, <<"bogus">>, <<>>,
                                             <<"PAUSE">>>>],
                               [raw |-> "C"]>>]],
      [track |-> "MENU", t |-> Ds(30),
       data |-> [prompt |-> "Inner", duration |-> Ds(5),
                 options |-> <<[text |-> "D", target |-> "nowhere"]>>]],
      [track |-> "MENU", t |-> Ds(70), data |-> [prompt |-> "End"]],
      [track |-> "DIALOG", t |-> Ds(57), data |-> [text |-> "Bye"]],
      [track |-> "LOGIC", t |-> Ds(60), data |-> [type |-> "Jump", target |-> "2.5"]]>>)

\* a scene of jumps: two labels named "Start", a jump to "Start", a jump to a
\* negative time, a pause, then a jump beyond the end and, 5 units later, a
\* jump whose target names nothing, and a last jump back; a dialog, a second
\* background, a sprite and a sound around the second label
EdgeScene ==
  Build(NewModel,
    <<[track |-> "LOGIC", t |-> Ds(20), data |-> [type |-> "label", name |-> "Start"]],
      [track |-> "LOGIC", t |-> Ds(25), data |-> [type |-> "label", name |-> "Start"]],
      [track |-> "LOGIC", t |-> Ds(10), data |-> [type |-> "jump", target |-> "Start"]],
      [track |-> "LOGIC", t |-> Ds(27), data |-> [type |-> "PAUSE"]],
      [track |-> "LOGIC", t |-> Ds(30), data |-> [type |-> "loop", target |-> "-5"]],
      [track |-> "LOGIC", t |-> Ds(52), data |-> [type |-> "goto", target |-> "100.0"]],
      [track |-> "LOGIC", t |-> Ds(52) + 5,
       data |-> [type |-> "jump", target |-> "nowhere", script_path |-> "hook.py"]],
      [track |-> "DIALOG", t |-> Ds(24), data |-> [text |-> "Hello", duration |-> Ds(10)]],
      [track |-> "BG", t |-> 0, data |-> [value |-> "bg1.png", duration |-> Ds(12)]],
      [track |-> "BG", t |-> Ds(22), data |-> [value |-> "bg2.png", duration |-> Ds(10)]],
      [track |-> "SPRITE", t |-> Ds(24), data |-> [value |-> "hero.png", duration |-> Ds(5)]],
      [track |-> "SFX", t |-> Ds(26), data |-> [value |-> "ding.ogg"]],
      [track |-> "LOGIC", t |-> Ds(60), data |-> [type |-> "jump", to |-> Ds(25)]]>>)

\* a scene with every kind of block: backgrounds that overlap, dialogs, sounds
\* (one of a missing file), music, a sprite, a fade, a short menu
\* at 3 s, label " Start" at 5 s and the jump to it at 6 s
PlayScene ==
  Build(NewModel,
    <<[track |-> "BG", t |-> 0, data |-> [value |-> "bg1.png", duration |-> Ds(55)]],
      [track |-> "BG", t |-> Ds(53), data |-> [value |-> "/proj/bg2.png", fit |-> "contain"]],
      [track |-> "SPRITE", t |-> Ds(49),
       data |-> [value |-> "hero.png", opacity |-> 500]],
      [track |-> "FX", t |-> Ds(55), data |-> [mode |-> "black"]],
      [track |-> "DIALOG", t |-> Ds(20),
       data |-> [text |-> "Hello", cps |-> 100, duration |-> Ds(30)]],
      [track |-> "DIALOG", t |-> Ds(52), data |-> [speaker |-> "Ann", text |-> "World"]],
      [track |-> "SFX", t |-> 0, data |-> [value |-> "ding.ogg"]],
      [track |-> "SFX", t |-> Ds(50) - 10, data |-> [value |-> "ding.ogg"]],
      [track |-> "SFX", t |-> Ds(58), data |-> [value |-> "gone.ogg"]],
      [track |-> "SFX", t |-> Ds(20), data |-> [value |-> "ding.ogg"]],
      [track |-> "MUSIC", t |-> Ds(51) + 5,
       data |-> [value |-> "theme.ogg", duration |-> 60]],
      [track |-> "MENU", t |-> Ds(30),
       data |-> [duration |-> 30,
                 options |-> <<[text |-> "Go", target |-> "Start"],
                               [text |-> "Again", target |-> "0"]>>]],
      [track |-> "LOGIC", t |-> Ds(50), data |-> [type |-> "Label", name |-> " Start"]],
      [track |-> "LOGIC", t |-> Ds(60), data |-> [type |-> "jump", target |-> "Start"]]>>)

\* linear playback: a background over [0, 10 s] and, over [2 s, 5 s], a
\* dialog typed at 10 characters per second; at 3 s a jump back to 0
LinearScene ==
  Build(NewModel,
    <<[track |-> "BG", t |-> 0, data |-> [value |-> "bg1.png", duration |-> Ds(100)]],
      [track |-> "DIALOG", t |-> Ds(20),
       data |-> [text |-> "Hello", cps |-> 100, duration |-> Ds(30)]],
      [track |-> "LOGIC", t |-> Ds(30), data |-> [type |-> "jump", target |-> "0"]]>>)

\* a scene that opens with a menu: a menu and a dialog at 0, the label
\* "Start" the menu leads to at 3 s, music from 3.5 s, and at 4 s a jump back
\* to 0
IntroScene ==
  Build(NewModel,
    <<[track |-> "MENU", t |-> 0,
       data |-> [prompt |-> "Intro", duration |-> Ds(20),
                 options |-> <<[text |-> "Go", target |-> "Start"]>>]],
      [track |-> "DIALOG", t |-> 0, data |-> [text |-> "Hi", duration |-> Ds(10)]],
      [track |-> "LOGIC", t |-> Ds(30), data |-> [type |-> "label", name |-> "Start"]],
      [track |-> "DIALOG", t |-> Ds(32), data |-> [text |-> "Bye", duration |-> Ds(5)]],
      [track |-> "MUSIC", t |-> Ds(35), data |-> [value |-> "theme.ogg", duration |-> 60]],
      [track |-> "LOGIC", t |-> Ds(40), data |-> [type |-> "jump", target |-> "0"]]>>)

\* two backgrounds that overlap over [2 s, 3 s]: the later one starts before
\* the earlier one ends and outlasts it; at 4.5 s a jump back to 0
StaggerScene ==
  Build(NewModel,
    <<[track |-> "BG", t |-> 0, data |-> [value |-> "bg1.png", duration |-> Ds(30)]],
      [track |-> "BG", t |-> Ds(20), data |-> [value |-> "bg2.png", duration |-> Ds(20)]],
      [track |-> "LOGIC", t |-> Ds(45), data |-> [type |-> "jump", target |-> "0"]]>>)

\* two backgrounds that overlap over [2 s, 3 s]: the later one lies inside the
\* earlier one, which lasts until 4 s; at 4.5 s a jump back to 0
NestScene ==
  Build(NewModel,
    <<[track |-> "BG", t |-> 0, data |-> [value |-> "bg1.png", duration |-> Ds(40)]],
      [track |-> "BG", t |-> Ds(20), data |-> [value |-> "bg2.png", duration |-> Ds(10)]],
      [track |-> "LOGIC", t |-> Ds(45), data |-> [type |-> "jump", target |-> "0"]]>>)

\* a dialog typed at half a character per second over [1 s, 4 s]; at 4.5 s a
\* jump back to 0
SlowScene ==
  Build(NewModel,
    <<[track |-> "DIALOG", t |-> Ds(10),
       data |-> [text |-> "Hello", cps |-> 5, duration |-> Ds(30)]],
      [track |-> "LOGIC", t |-> Ds(45), data |-> [type |-> "jump", target |-> "0"]]>>)

\* a dialog of two characters typed at two characters per second over
\* [1 s, 4 s]; at 4.5 s a jump back to 0
QuickScene ==
  Build(NewModel,
    <<[track |-> "DIALOG", t |-> Ds(10),
       data |-> [speaker |-> "Ann", text |-> "Hi", cps |-> 20, duration |-> Ds(30)]],
      [track |-> "LOGIC", t |-> Ds(45), data |-> [type |-> "jump", target |-> "0"]]>>)

\* a scene of the three kinds of target: at 0.5 s a jump to "2.5", at 1 s the
\* label "5.0", at 2.8 s a jump to "nowhere" and at 3 s a jump to "5.0"
ResolveScene ==
  Build(NewModel,
    <<[track |-> "LOGIC", t |-> Ds(5), data |-> [type |-> "jump", target |-> "2.5"]],
      [track |-> "LOGIC", t |-> Ds(10), data |-> [type |-> "label", name |-> "5.0"]],
      [track |-> "LOGIC", t |-> Ds(28), data |-> [type |-> "jump", target |-> "nowhere"]],
      [track |-> "LOGIC", t |-> Ds(30), data |-> [type |-> "jump", target |-> "5.0"]]>>)

\* music over [1 s, 2 s] and, at 2.5 s, a jump back into it, to 1.5 s
MusicJumpScene ==
  Build(NewModel,
    <<[track |-> "MUSIC", t |-> Ds(10), data |-> [value |-> "theme.ogg", duration |-> Ds(10)]],
      [track |-> "LOGIC", t |-> Ds(25), data |-> [type |-> "jump", target |-> "1.5"]]>>)

\* music over [1 s, 2 s] and, over [2.5 s, 3 s], a menu whose option leads
\* back into it, to 1.5 s
MusicMenuScene ==
  Build(NewModel,
    <<[track |-> "MUSIC", t |-> Ds(10), data |-> [value |-> "theme.ogg", duration |-> Ds(10)]],
      [track |-> "MENU", t |-> Ds(25),
       data |-> [prompt |-> "Again?", duration |-> Ds(5),
                 options |-> <<[text |-> "Back", target |-> "1.5"]>>]]>>)

\* a scene with an external script on a LOGIC keyframe and on a menu option:
\* at 1 s a jump to 2.5 s that carries the script, a label right behind it
\* (entered by the same tick when the step is long enough), and at 2.5 s a
\* menu whose only option carries the script and leads back to 0
ScriptScene(file) ==
  Build(NewModel,
    <<[track |-> "LOGIC", t |-> Ds(10),
       data |-> [type |-> "jump", target |-> "2.5", script_path |-> file]],
      [track |-> "LOGIC", t |-> Ds(10) + 5, data |-> [type |-> "label", name |-> "Mid"]],
      [track |-> "MENU", t |-> Ds(25),
       data |-> [prompt |-> "Again?", duration |-> Ds(5),
                 options |-> <<[text |-> "Go", target |-> "0", script_path |-> file]>>]]>>)

\* a dialog one timeline tick (1/30 s) long at 1 s, a dialog of one second at
\* 1.2 s, and at 3 s a jump back to 0
BriefScene ==
  Build(NewModel,
    <<[track |-> "DIALOG", t |-> Ds(10), data |-> [text |-> "Blink", duration |-> TICK_SEC]],
      [track |-> "DIALOG", t |-> Ds(12), data |-> [text |-> "Hello", duration |-> Ds(10)]],
      [track |-> "LOGIC", t |-> Ds(30), data |-> [type |-> "jump", target |-> "0"]]>>)

\* a dialog and a music block, each one timeline tick long, at 1 s, a dialog
\* and a music block of half a second at 1.2 s, and at 3 s a jump back to 0
GateScene ==
  Build(NewModel,
    <<[track |-> "DIALOG", t |-> Ds(10), data |-> [text |-> "Blink", duration |-> TICK_SEC]],
      [track |-> "MUSIC", t |-> Ds(10), data |-> [value |-> "theme.ogg", duration |-> TICK_SEC]],
      [track |-> "DIALOG", t |-> Ds(12), data |-> [text |-> "Hello", duration |-> Ds(5)]],
      [track |-> "MUSIC", t |-> Ds(12), data |-> [value |-> "theme.ogg", duration |-> Ds(5)]],
      [track |-> "LOGIC", t |-> Ds(30), data |-> [type |-> "jump", target |-> "0"]]>>)

\* a menu over [2 s, 2.5 s] whose option leads to the label "Start", the label
\* at 0.5 s, and at 3 s a jump to the label
LabelScene ==
  Build(NewModel,
    <<[track |-> "MENU", t |-> Ds(20),
       data |-> [prompt |-> "Where?", duration |-> Ds(5),
                 options |-> <<[text |-> "Go", target |-> "Start"]>>]],
      [track |-> "LOGIC", t |-> Ds(5), data |-> [type |-> "label", name |-> "Start"]],
      [track |-> "LOGIC", t |-> Ds(30), data |-> [type |-> "jump", target |-> "Start"]]>>)

\* keyframes that share the window of one slow tick: two dialogs and a label
\* just behind 1 s, the label starting before the second dialog, and two
\* jumps just behind 2 s, the earlier one to 0.5 s and the later one to 0
OrderScene ==
  Build(NewModel,
    <<[track |-> "DIALOG", t |-> Ds(10) + 5, data |-> [text |-> "One", duration |-> Ds(5)]],
      [track |-> "DIALOG", t |-> Ds(10) + 10, data |-> [text |-> "Two", duration |-> Ds(5)]],
      [track |-> "LOGIC", t |-> Ds(10) + 5, data |-> [type |-> "label", name |-> "L"]],
      [track |-> "LOGIC", t |-> Ds(20) + 5, data |-> [type |-> "jump", target |-> "0.5"]],
      [track |-> "LOGIC", t |-> Ds(20) + 10, data |-> [type |-> "jump", target |-> "0"]]>>)

\* a shake of 8 pixels over [1 s, 1.5 s], and at 2 s a jump back to 0
ShakeScene ==
  Build(NewModel,
    <<[track |-> "FX", t |-> Ds(10),
       data |-> [mode |-> "shake", duration |-> Ds(5), amplitude |-> 8]],
      [track |-> "LOGIC", t |-> Ds(20), data |-> [type |-> "jump", target |-> "0"]]>>)

\* a background over [61 s, 62 s], which makes the timeline 62 s long, and at
\* 0.5 s a jump to 100 s, behind the end
LongScene ==
  Build(NewModel,
    <<[track |-> "BG", t |-> MinDuration + 300, data |-> [value |-> "bg1.png", duration |-> Ds(10)]],
      [track |-> "LOGIC", t |-> Ds(5), data |-> [type |-> "jump", target |-> "100.0"]]>>)

\* sounds around a loop region [1 s, 2 s): one just before A, one at A, one
\* in the middle, one just before B and one at B
LoopScene ==
  Build(NewModel,
    <<[track |-> "SFX", t |-> Ds(10) - 5, data |-> [value |-> "ding.ogg"]],
      [track |-> "SFX", t |-> Ds(10), data |-> [value |-> "ding.ogg"]],
      [track |-> "SFX", t |-> Ds(15), data |-> [value |-> "ding.ogg"]],
      [track |-> "SFX", t |-> Ds(20) - 5, data |-> [value |-> "ding.ogg"]],
      [track |-> "SFX", t |-> Ds(20), data |-> [value |-> "ding.ogg"]]>>)

\* arrangements of DIALOG blocks, none with a jump: one after the other;
\* staggered (the later one starts inside the earlier and outlasts it); nested
\* (the later one lies inside the earlier); and one that starts at 0
SeqTalk ==
  Build(NewModel,
    <<[track |-> "DIALOG", t |-> Ds(10), data |-> [text |-> "Hello", duration |-> Ds(5)]],
      [track |-> "DIALOG", t |-> Ds(20), data |-> [text |-> "World", duration |-> Ds(5)]]>>)

StaggerTalk ==
  Build(NewModel,
    <<[track |-> "DIALOG", t |-> Ds(10), data |-> [text |-> "Hello", duration |-> Ds(15)]],
      [track |-> "DIALOG", t |-> Ds(20), data |-> [text |-> "World", duration |-> Ds(15)]]>>)

NestTalk ==
  Build(NewModel,
    <<[track |-> "DIALOG", t |-> Ds(10), data |-> [text |-> "Hello", duration |-> Ds(20)]],
      [track |-> "DIALOG", t |-> Ds(15), data |-> [text |-> "Hi", duration |-> Ds(5)]]>>)

ZeroTalk ==
  Build(NewModel,
    <<[track |-> "DIALOG", t |-> 0, data |-> [text |-> "Hi", duration |-> Ds(10)]]>>)

Talks == {SeqTalk, StaggerTalk, NestTalk, ZeroTalk}

\* a script that is missing, and the three that fail
ScriptFiles == {"hook.py", "locked.py", "bad.py", "boom.py"}

Scripted == {ScriptScene(file) : file \in ScriptFiles}

Scenes == {MenuScene, BranchScene, EdgeScene}

Musics == {MusicJumpScene, MusicMenuScene}

Typed == {SlowScene, QuickScene}

Fades == {StaggerScene, NestScene}

Lines == {LinearScene, IntroScene}

(***************************************************************************)
(* The state machine                                                       *)
(***************************************************************************)
VARIABLES model, widget, game, mixer, main, last, hist, session

vars == <<model, widget, game, mixer, main, last, hist, session>>

MaxFired == 2

DtChoices == {0, 5, MaxDt}
ScrubTargets == {-30, 0, Ds(30), Ds(50), MinDuration - 30, MinDuration + 600}
Keys == {Key_Space, Key_1, 50, 51, 52}
Clicks ==
  [button : {"left"}, idx : {-1, 0, 1, 2}, zone : {"body", "target"}]
    \cup {[button |-> "right", idx |-> 0, zone |-> "body"]}
DialogAnswers == {[ok |-> FALSE, val |-> ""]}
LoopMarks == {Ds(50)}

KfIds(m) == UNION {{m.tracks[tr][i].id : i \in 1..Len(m.tracks[tr])} : tr \in TrackSet}

\* the run since the last resynchronisation: where it started and how often
\* each keyframe's enter event fired in it (counted up to MaxFired)
NewHist(m, t) == [start |-> t, fired |-> [id \in KfIds(m) |-> 0]]

\* the ids that keyframes have held since the program started, and the project
\* file File > Save wrote last (<<>> before the first save): its document and
\* the tracks of the model that was saved
NewSession(m) == [ids |-> KfIds(m), saved |-> <<>>]

\* MainWindow.__init__: the A/B loop settings
NewMain(m) == [loop_enabled |-> FALSE, loop_a |-> 0, loop_b |-> Min(Ds(30), m.duration)]

Init ==
  /\ model \in Scenes
  /\ widget = NewWidget
  /\ game = NewGame
  /\ mixer = NewMixer
  /\ main = NewMain(model)
  /\ last = [op |-> "init", arg |-> 0, ev |-> NoEvents,
             pre |-> [menu |-> FALSE, playing |-> FALSE, playhead |-> 0]]
  /\ hist = NewHist(model, 0)
  /\ session = NewSession(model)

RunState == [w |-> widget, g |-> game, a |-> mixer, ev |-> NoEvents]

Count(seq, id) == Cardinality({i \in 1..Len(seq) : seq[i].id = id})

\* what the last handler found: menu, playing flag and playhead
Pre == [menu |-> widget.menu_active, playing |-> widget.playing,
        playhead |-> widget.playhead]

\* the handler's result r becomes the new state
Commit(r, m1, op, arg) ==
  /\ model' = m1
  /\ widget' = r.w
  /\ game' = r.g
  /\ mixer' = r.a
  /\ last' = [op |-> op, arg |-> arg, ev |-> r.ev, pre |-> Pre]
  /\ session' = session
  /\ hist' = IF hist.start < 0 THEN hist
              ELSE IF \E i \in 1..Len(r.ev.steps) : r.ev.steps[i] = "sync"
                THEN NewHist(m1, r.w.playhead)
                ELSE [hist EXCEPT !.fired =
                        [id \in DOMAIN @ |-> Min(MaxFired, @[id] + Count(r.ev.entered, id))]]

\* the 16 ms timer fires
DoTick ==
  \E dt \in DtChoices :
    /\ Commit(Tick(RunState, model, main, dt), model, "tick", dt)
    /\ UNCHANGED main

DoTogglePlay ==
  /\ Commit(TogglePlay(RunState, model), model, "toggle_play", 0)
  /\ UNCHANGED main

DoPlay ==
  /\ Commit(Play(RunState, model), model, "play", 0)
  /\ UNCHANGED main

DoPause ==
  /\ Commit(Pause(RunState, model), model, "pause", 0)
  /\ UNCHANGED main

DoStop ==
  /\ Commit(StopPlayback(RunState, model), model, "stop", 0)
  /\ UNCHANGED main

\* a click on the timeline: MainWindow._on_timeline_scrub
DoScrub ==
  \E t \in ScrubTargets :
    /\ Commit(ScrubTo(RunState, model, t), model, "scrub", t)
    /\ UNCHANGED main

DoKeyPress ==
  \E key \in Keys :
    /\ Commit(KeyPressEvent(RunState, model, key), model, "key", key)
    /\ UNCHANGED main

DoMousePress ==
  \E click \in Clicks, ans \in DialogAnswers :
    LET r == MousePressEvent(RunState, model, click, ans)
    IN  /\ Commit(r.s, r.m, "mouse", click.idx)
        /\ UNCHANGED main

DoPaint ==
  /\ Commit(PaintEvent(RunState), model, "paint", 0)
  /\ UNCHANGED main

\* set_mutes (the mute check boxes of the main window).  The specifications
\* below keep both mutes off; a specification about muting adds this action.
DoSetMutes ==
  \E sfx \in BOOLEAN, music \in BOOLEAN :
    /\ Commit(SetMutes(RunState, sfx, music), model, "set_mutes", 0)
    /\ UNCHANGED main

\* MainWindow: the loop toggle and the Set A / Set B actions, which take the
\* timeline's playhead
DoToggleLoop ==
  /\ main' = [main EXCEPT !.loop_enabled = ~@]
  /\ last' = [op |-> "loop", arg |-> 0, ev |-> NoEvents, pre |-> Pre]
  /\ UNCHANGED <<model, widget, game, mixer, hist, session>>

DoSetLoopA ==
  /\ widget.playhead \in LoopMarks
  /\ main' = [main EXCEPT !.loop_a = widget.playhead]
  /\ last' = [op |-> "loop", arg |-> 0, ev |-> NoEvents, pre |-> Pre]
  /\ UNCHANGED <<model, widget, game, mixer, hist, session>>

DoSetLoopB ==
  /\ widget.playhead \in LoopMarks
  /\ main' = [main EXCEPT !.loop_b = widget.playhead]
  /\ last' = [op |-> "loop", arg |-> 0, ev |-> NoEvents, pre |-> Pre]
  /\ UNCHANGED <<model, widget, game, mixer, hist, session>>

\* the widget's handlers
Handlers ==
  \/ DoTick
  \/ DoTogglePlay
  \/ DoPlay
  \/ DoPause
  \/ DoStop
  \/ DoScrub
  \/ DoKeyPress
  \/ DoMousePress
  \/ DoPaint

Next == Handlers

Spec == Init /\ [][Next]_vars

\* playback of the scene with every kind of block, with the A/B loop; the run
\* history is not kept here (a start of -1 switches it off)
InitPlay ==
  /\ model = PlayScene
  /\ widget = NewWidget
  /\ game = NewGame
  /\ mixer = NewMixer
  /\ main = NewMain(model)
  /\ last = [op |-> "init", arg |-> 0, ev |-> NoEvents,
             pre |-> [menu |-> FALSE, playing |-> FALSE, playhead |-> 0]]
  /\ hist = NewHist(model, -1)
  /\ session = NewSession(model)

NextPlay ==
  \/ DoTick
  \/ DoTogglePlay
  \/ DoStop
  \/ DoScrub
  \/ DoKeyPress
  \/ DoToggleLoop
  \/ DoSetLoopA
  \/ DoSetLoopB

SpecPlay == InitPlay /\ [][NextPlay]_vars

\* playback of the linear scene and of the scene that opens with a menu; the
\* run history is not kept
InitLine ==
  /\ model \in Lines
  /\ widget = NewWidget
  /\ game = NewGame
  /\ mixer = NewMixer
  /\ main = NewMain(model)
  /\ last = [op |-> "init", arg |-> 0, ev |-> NoEvents,
             pre |-> [menu |-> FALSE, playing |-> FALSE, playhead |-> 0]]
  /\ hist = NewHist(model, -1)
  /\ session = NewSession(model)

NextLine ==
  \/ DoTick
  \/ DoTogglePlay
  \/ DoPause
  \/ DoStop
  \/ DoKeyPress

SpecLine == InitLine /\ [][NextLine]_vars

\* playback of and clicks into the scenes with two overlapping backgrounds;
\* the run history is not kept
FadeTargets == {Ds(20), Ds(25), Ds(30), Ds(40)}

InitFade ==
  /\ model \in Fades
  /\ widget = NewWidget
  /\ game = NewGame
  /\ mixer = NewMixer
  /\ main = NewMain(model)
  /\ last = [op |-> "init", arg |-> 0, ev |-> NoEvents,
             pre |-> [menu |-> FALSE, playing |-> FALSE, playhead |-> 0]]
  /\ hist = NewHist(model, -1)
  /\ session = NewSession(model)

\* a click on the timeline inside or at the end of a background
DoScrubFade ==
  \E t \in FadeTargets :
    /\ Commit(ScrubTo(RunState, model, t), model, "scrub", t)
    /\ UNCHANGED main

NextFade ==
  \/ DoTick
  \/ DoTogglePlay
  \/ DoStop
  \/ DoScrubFade

SpecFade == InitFade /\ [][NextFade]_vars

\* playback of and clicks into the scenes of one dialog; the run history is
\* not kept
TypeTargets == {0, Ds(10), Ds(20), Ds(35)}

InitType ==
  /\ model \in Typed
  /\ widget = NewWidget
  /\ game = NewGame
  /\ mixer = NewMixer
  /\ main = NewMain(model)
  /\ last = [op |-> "init", arg |-> 0, ev |-> NoEvents,
             pre |-> [menu |-> FALSE, playing |-> FALSE, playhead |-> 0]]
  /\ hist = NewHist(model, -1)
  /\ session = NewSession(model)

\* a click on the timeline before or inside the dialog
DoScrubType ==
  \E t \in TypeTargets :
    /\ Commit(ScrubTo(RunState, model, t), model, "scrub", t)
    /\ UNCHANGED main

NextType ==
  \/ DoTick
  \/ DoTogglePlay
  \/ DoScrubType

SpecType == InitType /\ [][NextType]_vars

\* playback of the scene of the three kinds of target; the run history is not
\* kept
InitJump ==
  /\ model = ResolveScene
  /\ widget = NewWidget
  /\ game = NewGame
  /\ mixer = NewMixer
  /\ main = NewMain(model)
  /\ last = [op |-> "init", arg |-> 0, ev |-> NoEvents,
             pre |-> [menu |-> FALSE, playing |-> FALSE, playhead |-> 0]]
  /\ hist = NewHist(model, -1)
  /\ session = NewSession(model)

NextJump ==
  \/ DoTick
  \/ DoTogglePlay
  \/ DoStop

SpecJump == InitJump /\ [][NextJump]_vars

\* playback of, clicks into and menu selections in the scenes with music; the
\* run history is not kept
MusicTargets == {0, Ds(15)}

InitMusic ==
  /\ model \in Musics
  /\ widget = NewWidget
  /\ game = NewGame
  /\ mixer = NewMixer
  /\ main = NewMain(model)
  /\ last = [op |-> "init", arg |-> 0, ev |-> NoEvents,
             pre |-> [menu |-> FALSE, playing |-> FALSE, playhead |-> 0]]
  /\ hist = NewHist(model, -1)
  /\ session = NewSession(model)

\* a click on the timeline at its start or inside the music
DoScrubMusic ==
  \E t \in MusicTargets :
    /\ Commit(ScrubTo(RunState, model, t), model, "scrub", t)
    /\ UNCHANGED main

NextMusic ==
  \/ DoTick
  \/ DoTogglePlay
  \/ DoScrubMusic
  \/ DoKeyPress

SpecMusic == InitMusic /\ [][NextMusic]_vars

\* Playback of the scenes with external scripts
InitScript ==
  /\ model \in Scripted
  /\ widget = NewWidget
  /\ game = NewGame
  /\ mixer = NewMixer
  /\ main = NewMain(model)
  /\ last = [op |-> "init", arg |-> 0, ev |-> NoEvents,
             pre |-> [menu |-> FALSE, playing |-> FALSE, playhead |-> 0]]
  /\ hist = NewHist(model, -1)
  /\ session = NewSession(model)

NextScript ==
  \/ DoTick
  \/ DoTogglePlay
  \/ DoKeyPress

SpecScript == InitScript /\ [][NextScript]_vars

\* Playback of the scene with the brief dialog.  The wall clock gives the
\* timer any step up to the clamp: a 13 ms frame and a slow frame of 50 ms or
\* more
FrameDts == {4, MaxDt}

InitBrief ==
  /\ model = BriefScene
  /\ widget = NewWidget
  /\ game = NewGame
  /\ mixer = NewMixer
  /\ main = NewMain(model)
  /\ last = [op |-> "init", arg |-> 0, ev |-> NoEvents,
             pre |-> [menu |-> FALSE, playing |-> FALSE, playhead |-> 0]]
  /\ hist = NewHist(model, -1)
  /\ session = NewSession(model)

DoTickFrame ==
  \E dt \in FrameDts :
    /\ Commit(Tick(RunState, model, main, dt), model, "tick", dt)
    /\ UNCHANGED main

NextBrief ==
  \/ DoTickFrame
  \/ DoTogglePlay

SpecBrief == InitBrief /\ [][NextBrief]_vars

\* Playback of the scene with the brief dialog and the brief music
InitGate ==
  /\ model = GateScene
  /\ widget = NewWidget
  /\ game = NewGame
  /\ mixer = NewMixer
  /\ main = NewMain(model)
  /\ last = [op |-> "init", arg |-> 0, ev |-> NoEvents,
             pre |-> [menu |-> FALSE, playing |-> FALSE, playhead |-> 0]]
  /\ hist = NewHist(model, -1)
  /\ session = NewSession(model)

NextGate ==
  \/ DoTickFrame
  \/ DoTogglePlay

SpecGate == InitGate /\ [][NextGate]_vars

(***************************************************************************)
(* Editing: the timeline of a new project is filled, changed and replaced  *)
(* through the model's calls, the property editor, the timeline view and   *)
(* File > Load, while the preview rests.                                   *)
(***************************************************************************)
MaxId == 3
MaxKfs == 2

EditTracks == {"BG", "DIALOG"}
AddTimes == {15, MinDuration - 10}
MouseTimes == {MinDuration + 300}
EditTimes == {0}
\* the (track, id) pairs the view, the editor or a caller may hold
Selections == {<<"BG", 1>>, <<"DIALOG", 2>>}
ProjectFiles == {"/proj/a.json"}

\* the keyframe a caller of add_kf passes for a track
NewData(track) ==
  IF track = "BG" THEN [value |-> "bg1.png"] ELSE [text |-> "Hi", duration |-> Ds(15)]

\* an entry of a document
Item(t, id, data) == [obj |-> TRUE, t |-> t, id |-> id, data |-> data]
NoObject == [obj |-> FALSE, t |-> NotNum, id |-> <<>>, data |-> [text |-> ""]]

DocNames == {"empty", "good", "mixed", "no json", "bad duration", "bad time", "bad entry"}

\* the documents File > Load is given: an empty project; two tracks, one entry
\* with an id and one without; an entry without an id followed by one with
\* id 1; a text that is no JSON; a duration that is no number; two entries out
\* of order followed by one whose time is no number; one entry on every track
\* with no duration; an entry that is no object
DocOf(name) ==
  CASE name = "empty" -> [json |-> TRUE, duration |-> <<>>, tracks |-> <<>>]
    [] name = "good" ->
         [json |-> TRUE, duration |-> <<Num(MinDuration)>>,
          tracks |-> <<[track |-> "BG",
                        items |-> <<Item(Num(Ds(10)), <<2>>,
                                         [value |-> "bg1.png", duration |-> Ds(6)])>>],
                       [track |-> "DIALOG",
                        items |-> <<Item(Num(0), <<>>, [text |-> "Hi"])>>]>>]
    [] name = "mixed" ->
         [json |-> TRUE, duration |-> <<Num(Ds(100))>>,
          tracks |-> <<[track |-> "BG",
                        items |-> <<Item(Num(Ds(10)), <<>>, [value |-> "bg1.png"]),
                                    Item(Num(0), <<1>>, [value |-> "bg2.png"])>>]>>]
    [] name = "no json" -> [json |-> FALSE, duration |-> <<>>, tracks |-> <<>>]
    [] name = "bad duration" -> [json |-> TRUE, duration |-> <<NotNum>>, tracks |-> <<>>]
    [] name = "bad time" ->
         [json |-> TRUE, duration |-> <<Num(Ds(100))>>,
          tracks |-> <<[track |-> "BG",
                        items |-> <<Item(Num(Ds(10)), <<>>, [value |-> "bg1.png"]),
                                    Item(Num(0), <<>>, [value |-> "bg2.png"]),
                                    Item(NotNum, <<>>, [value |-> "bg1.png"])>>]>>]
    [] name = "bare" ->
         [json |-> TRUE, duration |-> <<>>,
          tracks |-> [i \in 1..Len(TRACKS) |->
                        [track |-> TRACKS[i],
                         items |-> <<Item(Num(0), <<>>, [text |-> ""])>>]]]
    [] name = "bad entry" ->
         [json |-> TRUE, duration |-> <<>>,
          tracks |-> <<[track |-> "DIALOG", items |-> <<NoObject>>]>>]

\* the keyframes of a model, as (track, index) pairs, and their number
KfSlots(m) == UNION {{<<tr, i>> : i \in 1..Len(m.tracks[tr])} : tr \in TrackSet}

KfCount(m) == Cardinality(KfSlots(m))

InitEdit ==
  /\ model = NewModel
  /\ widget = NewWidget
  /\ game = NewGame
  /\ mixer = NewMixer
  /\ main = NewMain(model)
  /\ last = [op |-> "init", arg |-> 0, ev |-> NoEvents,
             pre |-> [menu |-> FALSE, playing |-> FALSE, playhead |-> 0]]
  /\ hist = NewHist(model, -1)
  /\ session = NewSession(model)

\* an editing call returns: m1 is the model it leaves
EditCommit(m1, op, arg) ==
  /\ model' = m1
  /\ last' = [op |-> op, arg |-> arg, ev |-> NoEvents, pre |-> Pre]
  /\ session' = [session EXCEPT !.ids = @ \cup KfIds(m1)]
  /\ UNCHANGED <<widget, game, mixer, main, hist>>

\* TimelineModel.add_kf, from the asset dock, the timeline's "Add ... here"
\* or a drop; arg is the id it assigned
DoAddKf ==
  \E track \in EditTracks, t \in AddTimes, snap \in BOOLEAN :
    /\ model.next_id <= MaxId
    /\ KfCount(model) < MaxKfs
    /\ EditCommit(AddKf(model, track, t, NewData(track), snap), "add_kf", model.next_id)

\* TimelineView._delete_sel -> TimelineModel.remove_kf; arg tells whether a
\* keyframe was removed
DoDeleteSel ==
  \E sel \in Selections :
    EditCommit(DeleteSel(model, sel), "remove_kf",
               IF FindKf(model.tracks, sel[1], sel[2]) # <<>> THEN 1 ELSE 0)

\* TimelineModel.delete_keyframes with a list of two; arg is the number of
\* keyframes it removed
DoDeleteKeyframes ==
  \E a \in Selections, b \in Selections :
    EditCommit(DeleteKeyframes(model, <<a, b>>), "delete_keyframes",
               KfCount(model) - KfCount(DeleteKeyframes(model, <<a, b>>)))

\* File > Load: MainWindow._load -> TimelineModel.load_json; arg tells
\* whether it raised
DoLoad ==
  \E name \in DocNames, fn \in ProjectFiles :
    EditCommit(LoadJson(model, DocOf(name), fn).m, "load_json",
               IF LoadJson(model, DocOf(name), fn).failed THEN 1 ELSE 0)

\* the property editor's Apply: MainWindow._apply_edit
DoApplyEdit ==
  \E sel \in Selections, t \in EditTimes :
    EditCommit(ApplyEdit(model, [track |-> sel[1], kf_id |-> sel[2], t |-> t,
                                 data |-> [duration |-> Ds(10)]]),
               "apply_edit", 0)

\* a block of the timeline is dragged or resized
DoMouseMove ==
  \E sel \in Selections, mode \in {"drag", "resize"}, x \in MouseTimes :
    EditCommit(MouseMoveEvent(model, sel, mode, x, 0), mode, 0)

NextEdit ==
  \/ DoAddKf
  \/ DoDeleteSel
  \/ DoDeleteKeyframes
  \/ DoLoad
  \/ DoApplyEdit
  \/ DoMouseMove

SpecEdit == InitEdit /\ [][NextEdit]_vars

(***************************************************************************)
(* Project files: File > Save writes the model's document, File > Load     *)
(* reads it back, and the timeline is edited in between.                   *)
(***************************************************************************)
\* to_json, the data of one keyframe: a string value is normalised against
\* the asset root
SerializedData(data) ==
  IF "value" \in DOMAIN data THEN Put(data, "value", NormalizeAsset(data.value))
  ELSE data

\* TimelineModel.to_json: the document it returns (every track of the model in
\* the model's order, every keyframe with t, data and id) and the model it
\* leaves, whose values are normalised too.  json.dumps writes a float by its
\* shortest repr and json.loads reads that back to the same float, an int
\* stays an int: a number of the document is the number of the model.
ToJson(m) ==
  [m |-> [m EXCEPT !.tracks =
            [tr \in TrackSet |->
               [j \in 1..Len(m.tracks[tr]) |->
                  [m.tracks[tr][j] EXCEPT !.data = SerializedData(@)]]]],
   doc |-> [json |-> TRUE,
            duration |-> <<Num(m.duration)>>,
            tracks |-> [i \in 1..Len(TRACKS) |->
                          [track |-> TRACKS[i],
                           items |-> [j \in 1..Len(m.tracks[TRACKS[i]]) |->
                                        Item(Num(m.tracks[TRACKS[i]][j].t),
                                             <<m.tracks[TRACKS[i]][j].id>>,
                                             SerializedData(m.tracks[TRACKS[i]][j].data))]]]]]

\* MainWindow._save: the model it leaves
Save(m, fn) == [ToJson(SetProjectFile(m, fn)).m EXCEPT !.dirty = FALSE]

InitFile ==
  /\ model = NewModel
  /\ widget = NewWidget
  /\ game = NewGame
  /\ mixer = NewMixer
  /\ main = NewMain(model)
  /\ last = [op |-> "init", arg |-> 0, ev |-> NoEvents,
             pre |-> [menu |-> FALSE, playing |-> FALSE, playhead |-> 0]]
  /\ hist = NewHist(model, -1)
  /\ session = NewSession(model)

\* File > Save
DoSave ==
  \E fn \in ProjectFiles :
    /\ model' = Save(model, fn)
    /\ last' = [op |-> "save", arg |-> 0, ev |-> NoEvents, pre |-> Pre]
    /\ session' = [session EXCEPT !.saved =
                     <<[doc |-> ToJson(SetProjectFile(model, fn)).doc,
                        tracks |-> Save(model, fn).tracks]>>]
    /\ UNCHANGED <<widget, game, mixer, main, hist>>

\* File > Load of the file that was saved last; arg tells whether it raised
DoLoadSaved ==
  \E fn \in ProjectFiles :
    /\ session.saved # <<>>
    /\ EditCommit(LoadJson(model, session.saved[1].doc, fn).m, "load_saved",
                  IF LoadJson(model, session.saved[1].doc, fn).failed THEN 1 ELSE 0)

NextFile ==
  \/ DoAddKf
  \/ DoMouseMove
  \/ DoSave
  \/ DoLoadSaved

SpecFile == InitFile /\ [][NextFile]_vars

(***************************************************************************)
(* Keyframes of every track and of every kind of duration are added,       *)
(* loaded and removed.                                                     *)
(***************************************************************************)
\* the durations a keyframe is given: negative, zero, below one tick, a second
KfDurations == {-30, 0, 5, Ds(10)}
\* the tracks remove_kf is called for: the known ones and one that is unknown
RemoveTracks == TrackSet \cup {"NOPE"}

\* the id is held by a keyframe of the track
Present(m, track, id) ==
  track \in DOMAIN m.tracks /\ \E i \in 1..Len(m.tracks[track]) : m.tracks[track][i].id = id

\* add_kf with a keyframe that carries a duration; arg is the id it assigned
DoAddAny ==
  \E track \in TrackSet, d \in KfDurations :
    /\ model.next_id <= MaxId
    /\ KfCount(model) < MaxKfs
    /\ EditCommit(AddKf(model, track, 0, [duration |-> d], TRUE), "add_kf", model.next_id)

\* File > Load of the project whose keyframes have no duration
DoLoadBare ==
  \E fn \in ProjectFiles :
    EditCommit(LoadJson(model, DocOf("bare"), fn).m, "load_json",
               IF LoadJson(model, DocOf("bare"), fn).failed THEN 1 ELSE 0)

\* TimelineModel.remove_kf; arg tells whether the track held the id
DoRemoveKf ==
  \E track \in RemoveTracks, id \in 1..MaxId :
    EditCommit(RemoveKf(model, track, id), "remove_kf",
               IF Present(model, track, id) THEN 1 ELSE 0)

NextKf ==
  \/ DoAddAny
  \/ DoLoadBare
  \/ DoRemoveKf

SpecKf == InitEdit /\ [][NextKf]_vars

(***************************************************************************)
(* The playback states of the specification, and what it says of menus     *)
(***************************************************************************)
MenuModal == widget.menu_active /\ ~widget.playing
Playing == widget.playing /\ ~widget.menu_active

\* the keyframes of a track whose window [start, start + effective duration]
\* holds t
Windows(m, track, t) ==
  {i \in 1..Len(m.tracks[track]) :
     LET k == m.tracks[track][i]
     IN  k.t <= t /\ t <= k.t + EffDuration(track, k)}

\* of those the one that starts last (a track is kept sorted by start)
Latest(m, track, t) ==
  m.tracks[track][CHOOSE i \in Windows(m, track, t) :
                    \A j \in Windows(m, track, t) : j <= i]

MenuWindows(m, t) == Windows(m, "MENU", t)
LatestMenu(m, t) == Latest(m, "MENU", t)

Selected == last.ev.selected >= 0

\* C1, as stated: in the scene of a MENU at 5 s (default duration) with options
\* A -> "10.0" and B -> "Start" and label "Start" at 0, the tick that brings
\* playback to 5 s ends in MENU_MODAL; selecting option 0 leaves the playhead
\* at 10.0 and the state PLAYING, selecting option 1 leaves the playhead at 0.0
\* and the state PLAYING.
C1_MenuScenario ==
  model = MenuScene =>
    /\ (last.op = "tick" /\ last.pre.playing /\ last.pre.playhead < Ds(50)
          /\ widget.playhead >= Ds(50) => MenuModal)
    /\ (last.ev.selected = 0 /\ last.pre.playhead = Ds(50)
          /\ "Start" \in DOMAIN widget.label_index
          => widget.playhead = Ds(100) /\ Playing)
    /\ (last.ev.selected = 1 /\ last.pre.playhead = Ds(50)
          /\ "Start" \in DOMAIN widget.label_index
          => widget.playhead = 0 /\ Playing)

\* C2, as stated: selecting option i of an active menu leaves the playhead at
\* the option's resolved target clamped to [0, duration], and the state
\* PLAYING with no menu active.
C2_SelectResumes ==
  Selected =>
    /\ widget.playhead = Clamp(0, model.duration, last.ev.target)
    /\ Playing

\* C3: after every tick and every scrub_to, if the window of some MENU
\* keyframe holds the playhead, the menu is active, playback is not playing,
\* and the option rows are those of the latest-starting such keyframe, each
\* with its target resolved to a time.
C3_MenuModal ==
  last.op \in {"tick", "scrub"} /\ MenuWindows(model, widget.playhead) # {} =>
    LET k == LatestMenu(model, widget.playhead)
        opts == Get(k.data, "options", <<>>)
    IN  /\ MenuModal
        /\ widget.menu_kf_id = <<k.id>>
        /\ Len(widget.menu_options) = Len(opts)
        /\ \A i \in 1..Len(opts) :
             /\ widget.menu_options[i].to \in Int
             /\ IsDictOption(opts[i]) =>
                  widget.menu_options[i].to =
                    ResolveTargetToTime(widget.label_index, TargetRaw(opts[i]),
                                        widget.playhead)

\* a scrub into the inner of two nested menus shows the inner one
C3_Witness ==
  /\ model = BranchScene
  /\ last.op = "scrub"
  /\ Cardinality(MenuWindows(model, widget.playhead)) = 2
  /\ widget.menu_prompt = "Inner"

MenuState(w) ==
  <<w.menu_active, w.menu_prompt, w.menu_options, w.menu_kf_id>>

\* C5: while the menu is active, toggle_play, play and pause leave the playing
\* flag, the playhead and the menu state as they are, and a tick leaves the
\* playhead where it is.
C5_Frozen ==
  [][widget.menu_active =>
       /\ last'.op \in {"toggle_play", "play", "pause"} =>
            /\ widget'.playing = widget.playing
            /\ widget'.playhead = widget.playhead
            /\ MenuState(widget') = MenuState(widget)
       /\ last'.op = "tick" => widget'.playhead = widget.playhead]_vars

\* toggle_play was called on an active menu
C5_Witness ==
  last.pre.menu /\ last.op = "toggle_play" /\ MenuModal

\* what the timeline puts at time t: the dialog, background and sprite of the
\* latest-starting block whose window holds t
DialogAt(m, t) ==
  IF Windows(m, "DIALOG", t) = {} THEN [speaker |-> "", text |-> ""]
  ELSE [speaker |-> Get(Latest(m, "DIALOG", t).data, "speaker", ""),
        text |-> Get(Latest(m, "DIALOG", t).data, "text", "")]

ImageAt(m, track, t) ==
  IF Windows(m, track, t) = {} THEN NONE
  ELSE LoadImage(Get(Latest(m, track, t).data, "value", ""))

\* C6: a tick that applies a jump runs enter events, end gates, the jump, the
\* resync and the layer update in this order, and ends with the dialog, menu,
\* background and sprite of the playhead it jumped to.
C6_JumpThenResync ==
  last.op = "tick" /\ last.ev.jumped =>
    /\ last.ev.steps = <<"enters", "gates", "jump", "sync", "layers">>
    /\ game.dialog.speaker = DialogAt(model, widget.playhead).speaker
    /\ game.dialog.text = DialogAt(model, widget.playhead).text
    /\ game.bg_img = ImageAt(model, "BG", widget.playhead)
    /\ game.spr_img = ImageAt(model, "SPRITE", widget.playhead)
    /\ widget.menu_active = (MenuWindows(model, widget.playhead) # {})
    /\ widget.menu_active =>
         widget.menu_kf_id = <<LatestMenu(model, widget.playhead).id>>

\* the jump at 1 s landed on the dialog, second background and sprite at 2.5 s
C6_Witness ==
  /\ model = EdgeScene
  /\ last.op = "tick" /\ last.ev.jumped
  /\ last.pre.playhead < Ds(10)
  /\ widget.playhead = Ds(25)
  /\ game.dialog.text = "Hello"
  /\ game.bg_img = "bg2.png"
  /\ game.spr_img = "hero.png"

\* the LOGIC keyframes with a jump action that the last handler entered, in
\* the order it entered them
EnteredJumps ==
  LET logic == SelectSeq(last.ev.entered, LAMBDA e : e.track = "LOGIC")
      kfs == [i \in 1..Len(logic) |-> FindKf(model.tracks, "LOGIC", logic[i].id)[1]]
  IN  SelectSeq(kfs, LAMBDA k : Lower(Get(k.data, "type", "")) \in {"jump", "goto", "loop"})

\* the label keyframes named n, by their place in the LOGIC track
LabelKfs(m, n) ==
  {i \in 1..Len(m.tracks["LOGIC"]) :
     LET d == m.tracks["LOGIC"][i].data
     IN  /\ Lower(Get(d, "type", "")) = "label"
         /\ n # ""
         /\ Strip(Get(d, "name", "")) = n}

\* where a jump keyframe leads according to the label keyframe at place i,
\* or, with i = 0, according to its numeric target
LandsAt(k, i) ==
  IF i > 0 THEN widget.playhead = model.tracks["LOGIC"][i].t
  ELSE TargetRaw(k.data) \in FloatStrings =>
         widget.playhead = Clamp(0, model.duration, FloatOf(TargetRaw(k.data)))

\* C7, as stated: at the end of a tick that entered a jump keyframe targeting
\* N the playhead is the time of any label keyframe named N; a numeric target
\* is clamped to [0, duration].
C7_AnyLabelAnyJump ==
  last.op = "tick" =>
    \A n \in 1..Len(EnteredJumps) :
      LET k == EnteredJumps[n]
          named == LabelKfs(model, TargetRaw(k.data))
      IN  IF named = {} THEN LandsAt(k, 0) ELSE \A i \in named : LandsAt(k, i)

\* C7, amended: at the end of a tick the playhead is where the last jump
\* keyframe entered in that tick leads: the time of the last label keyframe of
\* the LOGIC track named by its target, or its numeric target clamped to
\* [0, duration].
C7_LastJumpLastLabel ==
  last.op = "tick" /\ EnteredJumps # <<>> =>
    LET k == Last(EnteredJumps)
        named == LabelKfs(model, TargetRaw(k.data))
    IN  IF named = {} THEN LandsAt(k, 0)
        ELSE LandsAt(k, CHOOSE i \in named : \A j \in named : j <= i)

\* a tick entered two jumps, the first to beyond the end, and stayed
C7_Witness ==
  /\ last.op = "tick"
  /\ Len(EnteredJumps) = 2
  /\ TargetRaw(EnteredJumps[1].data) = "100.0"
  /\ widget.playhead < model.duration

\* the last handler resynchronised (scrub_to, stop, an option selection, or a
\* tick that jumped)
Resynced == \E i \in 1..Len(last.ev.steps) : last.ev.steps[i] = "sync"

\* the menu the timeline puts at time t, its targets resolved by the labels of
\* the LOGIC track; <<>> when no MENU window holds t
MenuAt(m, t) ==
  IF MenuWindows(m, t) = {} THEN <<>>
  ELSE <<[id |-> LatestMenu(m, t).id,
          prompt |-> Get(LatestMenu(m, t).data, "prompt", "Choose:"),
          options |-> NormalizeOptions(Get(LatestMenu(m, t).data, "options", <<>>),
                                       RebuildLabels(m.tracks), t)]>>

\* the menu the widget shows
MenuOf(w) ==
  IF ~w.menu_active THEN <<>>
  ELSE <<[id |-> w.menu_kf_id[1], prompt |-> w.menu_prompt, options |-> w.menu_options]>>

\* C8, as stated: the dialog, background, sprite and menu state after a resync
\* are a function of the timeline and the time alone, whatever was played,
\* jumped or scrubbed before.
C8_ResyncByTimeOnly ==
  Resynced =>
    /\ game.dialog.speaker = DialogAt(model, widget.playhead).speaker
    /\ game.dialog.text = DialogAt(model, widget.playhead).text
    /\ game.bg_img = ImageAt(model, "BG", widget.playhead)
    /\ game.spr_img = ImageAt(model, "SPRITE", widget.playhead)
    /\ MenuOf(widget) = MenuAt(model, widget.playhead)

\* the enter window (lo, hi] of the last tick: from the playhead it found to
\* the one it advanced to, or the one ending at A when it looped back
EnterWindow ==
  IF last.ev.looped THEN <<main.loop_a - TICK_SEC, main.loop_a>>
  ELSE <<last.pre.playhead, Min(model.duration, last.pre.playhead + last.arg)>>

\* C9: no sound is played by scrub_to, stop or an option selection, nor by the
\* resync of a tick that jumped or looped back; a tick plays the sound of an
\* SFX keyframe only when playback is running and its enter window holds the
\* keyframe's start, and then once.
C9_SfxOnlyOnEnter ==
  /\ last.op # "tick" => last.ev.sfx = <<>>
  /\ last.op = "tick" =>
       /\ ~last.pre.playing => last.ev.sfx = <<>>
       /\ \A i \in 1..Len(last.ev.sfx) :
            /\ FindKf(model.tracks, "SFX", last.ev.sfx[i]) # <<>>
            /\ EnterWindow[1] < FindKf(model.tracks, "SFX", last.ev.sfx[i])[1].t
            /\ FindKf(model.tracks, "SFX", last.ev.sfx[i])[1].t <= EnterWindow[2]
            /\ \A j \in 1..Len(last.ev.sfx) : last.ev.sfx[j] = last.ev.sfx[i] => j = i

\* a tick jumped into the block of a sound and played nothing
C9_Witness ==
  /\ last.op = "tick" /\ last.ev.jumped
  /\ Windows(model, "SFX", widget.playhead) # {}
  /\ last.ev.sfx = <<>>

\* C10: in a run of forward playback (since the last resync, or since
\* construction) that started at playhead s and is now at T, the enter event
\* of every keyframe, on any track, that starts in (s, T] has fired exactly
\* once, and that of no other keyframe has fired.
C10_EnterOnce ==
  hist.start >= 0 =>
    \A tr \in TrackSet : \A i \in 1..Len(model.tracks[tr]) :
      hist.fired[model.tracks[tr][i].id] =
        IF hist.start < model.tracks[tr][i].t /\ model.tracks[tr][i].t <= widget.playhead
          THEN 1 ELSE 0

\* a run from 2.5 s has entered the sound and the pause that follow, once each
C10_Witness ==
  /\ model = EdgeScene
  /\ hist.start = Ds(25)
  /\ widget.playhead >= Ds(27)
  /\ Cardinality({id \in DOMAIN hist.fired : hist.fired[id] = 1}) = 2

(***************************************************************************)
(* The A/B loop, stop and pause                                            *)
(***************************************************************************)
\* the last handler was a playing tick that reached B with the loop on
LoopTick ==
  /\ last.op = "tick" /\ last.pre.playing
  /\ main.loop_enabled /\ main.loop_b > main.loop_a
  /\ Min(model.duration, last.pre.playhead + last.arg) >= main.loop_b

\* C11: a playing tick that reaches or passes B with the loop on and B > A
\* loops back: it enters every keyframe that starts exactly at A, once, then
\* resynchronises and only then recomputes the layer inputs, and it ends at A
\* (unless a keyframe it entered asked for a jump, which is applied after the
\* enter events), with the background and sprite of the playhead it ends at.
C11_LoopBack ==
  LoopTick =>
    /\ last.ev.looped
    /\ ~last.ev.jumped => widget.playhead = main.loop_a
    /\ \A tr \in TrackSet : \A i \in 1..Len(model.tracks[tr]) :
         model.tracks[tr][i].t = main.loop_a =>
           Count(last.ev.entered, model.tracks[tr][i].id) = 1
    /\ last.ev.steps \in {<<"enters", "gates", "sync", "layers">>,
                          <<"enters", "gates", "jump", "sync", "layers">>}
    /\ game.bg_img = ImageAt(model, "BG", widget.playhead)
    /\ game.spr_img = ImageAt(model, "SPRITE", widget.playhead)

\* a tick looped back to A = 0 and played the sound that starts at 0, which
\* playback from 0 does not play
C11_Witness ==
  /\ LoopTick
  /\ main.loop_a = 0 /\ widget.playhead = 0
  /\ last.pre.playhead > 0
  /\ last.ev.sfx # <<>>
  /\ \E i \in 1..Len(last.ev.entered) : last.ev.entered[i].track = "BG"

\* C13: a tick that finds playback not running leaves the playhead where it
\* is, enters no keyframe and applies no end gate (it only recomputes the
\* layer inputs); toggle_play or play on paused playback with no menu up sets
\* it running at the same playhead, and a tick of running playback that does
\* not jump advances from the playhead it found by dt, up to the duration.
C13_PausedFrozen ==
  /\ last.op = "tick" /\ ~last.pre.playing =>
       /\ widget.playhead = last.pre.playhead
       /\ last.ev.entered = <<>>
       /\ last.ev.sfx = <<>>
       /\ last.ev.steps = <<"layers">>
  /\ last.op \in {"toggle_play", "play"} /\ ~last.pre.playing /\ ~last.pre.menu =>
       /\ widget.playing
       /\ widget.playhead = last.pre.playhead
  /\ last.op = "tick" /\ last.pre.playing /\ ~last.ev.jumped /\ ~last.ev.looped =>
       widget.playhead = Min(model.duration, last.pre.playhead + last.arg)

\* playback that had run to some point before the first jump of the scene of
\* jumps was paused there, and a tick found it paused
C13_Witness ==
  /\ model = EdgeScene
  /\ last.op = "tick" /\ last.arg > 0
  /\ ~last.pre.playing /\ ~last.pre.menu
  /\ 0 < widget.playhead /\ widget.playhead < Ds(10)

\* what stop() leaves apart from the menu: playhead 0, playback not running,
\* no pending jump, no music, and the dialog of the timeline at 0
Stopped ==
  /\ widget.playhead = 0
  /\ ~widget.playing
  /\ widget.pending_jump = <<>>
  /\ mixer.state = "idle"
  /\ widget.music_paused = "no"
  /\ widget.music_end < 0
  /\ game.dialog.speaker = DialogAt(model, 0).speaker
  /\ game.dialog.text = DialogAt(model, 0).text
  /\ RenderDialog(game, 0).active = (Windows(model, "DIALOG", 0) # {})

\* C12, as stated: after stop() the playhead is 0, playback is not running, no
\* jump is pending, the dialog is that of a resync at 0 and no menu is active.
C12_StopClears ==
  last.op = "stop" => Stopped /\ ~widget.menu_active

\* C12, amended: after stop() the playhead is 0, playback is not running, no
\* jump is pending, no music plays, the dialog is that of a resync at 0, and a
\* menu is active exactly when the window of a MENU keyframe holds 0: then it
\* is the menu of the latest such keyframe.
C12_StopResyncsAtZero ==
  last.op = "stop" =>
    /\ Stopped
    /\ widget.menu_active = (MenuWindows(model, 0) # {})
    /\ widget.menu_active =>
         /\ widget.menu_kf_id = <<LatestMenu(model, 0).id>>
         /\ widget.menu_prompt = Get(LatestMenu(model, 0).data, "prompt", "Choose:")

\* running playback past the menu was stopped, and the menu at 0 is up again
C12_Witness ==
  /\ model = IntroScene
  /\ last.op = "stop"
  /\ last.pre.playing /\ last.pre.playhead > Ds(32)
  /\ widget.menu_active
  /\ game.dialog.text = "Hi"

\* C14: in the scene of a background "bg1.png" over [0, 10 s] and a dialog
\* "Hello" at 10 characters per second over [2 s, 5 s], at playhead 2.5 s the
\* layer inputs hold one background, "bg1.png", which is drawn without a
\* crossfade, and the dialog box is drawn with 5 characters of "Hello" typed.
C14_LinearPlayback ==
  model = LinearScene /\ last.op = "tick" /\ widget.playhead = Ds(25) =>
    /\ Cardinality(Windows(model, "BG", widget.playhead)) = 1
    /\ RenderBg(game, widget.playhead).img = "bg1.png"
    /\ ~RenderBg(game, widget.playhead).crossfade
    /\ game.bg_prev = NONE
    /\ game.dialog.text = "Hello"
    /\ RenderDialog(game, widget.playhead).active
    /\ RenderDialog(game, widget.playhead).typed = 5

\* running playback ticked from before 2.5 s to 2.5 s
C14_Witness ==
  /\ model = LinearScene
  /\ last.op = "tick" /\ last.pre.playing
  /\ last.pre.playhead < Ds(25)
  /\ widget.playhead = Ds(25)
  /\ RenderDialog(game, widget.playhead).typed = 5

(***************************************************************************)
(* The timeline model under editing                                        *)
(***************************************************************************)
\* the duration covers every keyframe's window and the 60 s floor
Covers(m) ==
  /\ m.duration >= MinDuration
  /\ \A s \in KfSlots(m) : m.duration >= KfEnd(s[1], m.tracks[s[1]][s[2]])

\* max(60 s, the latest end of a keyframe's window)
MaxEnd(m) ==
  CHOOSE d \in {MinDuration} \cup {KfEnd(s[1], m.tracks[s[1]][s[2]]) : s \in KfSlots(m)} :
    /\ d >= MinDuration
    /\ \A s \in KfSlots(m) : d >= KfEnd(s[1], m.tracks[s[1]][s[2]])

\* the last call was a load_json that raised
LoadFailed == last.op = "load_json" /\ last.arg = 1

\* C15, as stated: every timeline operation (add_kf, remove_kf,
\* delete_keyframes, load_json, the property editor's apply, a drag or a
\* resize of a block) leaves the duration at or above 60 s and at or above the
\* end of every keyframe's window, if it found it so.  (A load_json that
\* raises is left to C20.)
C15_DurationCovers ==
  [][Covers(model) /\ ~LoadFailed' => Covers(model')]_vars

\* C16: add_kf never lowers the duration, and a remove_kf or delete_keyframes
\* that removed a keyframe leaves the duration at max(60 s, the latest end of
\* a remaining keyframe's window).
C16_AddGrowsRemoveRecomputes ==
  [][/\ last'.op = "add_kf" => model'.duration >= model.duration
     /\ last'.op \in {"remove_kf", "delete_keyframes"} /\ last'.arg > 0 =>
          model'.duration = MaxEnd(model')]_vars

\* a keyframe was removed, another remains, and the duration is that one's end
C16_Witness ==
  /\ last.op = "remove_kf" /\ last.arg = 1
  /\ KfCount(model) = 1
  /\ model.duration > MinDuration
  /\ model.duration = MaxEnd(model)

\* C17, as stated: in every reachable state every track's keyframes are in
\* ascending order of start time.
C17_Sorted ==
  \A tr \in TrackSet : \A i \in 1..Len(model.tracks[tr]) :
    \A j \in i..Len(model.tracks[tr]) : model.tracks[tr][i].t <= model.tracks[tr][j].t

\* C18, as stated: in every reachable state the ids of all keyframes, across
\* all tracks, are pairwise distinct.
C18_UniqueIds ==
  \A a \in KfSlots(model) : \A b \in KfSlots(model) :
    a # b => model.tracks[a[1]][a[2]].id # model.tracks[b[1]][b[2]].id

\* C19, as stated: the id add_kf assigns was held by no keyframe before in the
\* session, whether it was added or loaded, removed since or replaced by a
\* load.
C19_NeverReused ==
  [][last'.op = "add_kf" => last'.arg \notin session.ids]_vars

\* C20, as stated: a load_json that raises leaves the tracks, the duration,
\* the next id, the project file (and with it the asset root) and the dirty
\* flag as they were.
C20_AllOrNothing ==
  [][LoadFailed' =>
       /\ model'.tracks = model.tracks
       /\ model'.duration = model.duration
       /\ model'.next_id = model.next_id
       /\ model'.project_file = model.project_file
       /\ AssetRoot(model') = AssetRoot(model)
       /\ model'.dirty = model.dirty]_vars

(***************************************************************************)
(* Project files                                                           *)
(***************************************************************************)
\* the last call loaded the project file that was saved last
Reloaded == last.op = "load_saved" /\ session.saved # <<>>

\* C21, as stated: loading the document to_json wrote gives every track the
\* keyframes that were saved, in their order, with their ids, times and data;
\* every known track is there; and saving again writes the same document.
C21_RoundTrip ==
  Reloaded =>
    /\ last.arg = 0
    /\ DOMAIN model.tracks = TrackSet
    /\ model.tracks = session.saved[1].tracks
    /\ ToJson(model).doc = session.saved[1].doc

(***************************************************************************)
(* Keyframes: removal of what is not there, and the effective duration     *)
(***************************************************************************)
\* C22: remove_kf for an id the track does not hold, or for an unknown track,
\* leaves the model as it was (tracks, duration and dirty flag included), and
\* find_kf answers None for every such id.
C22_RemoveMissing ==
  [][last'.op = "remove_kf" /\ last'.arg = 0 =>
       /\ model' = model
       /\ \A track \in RemoveTracks, id \in 1..MaxId :
            ~Present(model, track, id) => FindKf(model.tracks, track, id) = <<>>]_vars

\* remove_kf found nothing to remove in a loaded project that is still clean
C22_Witness ==
  /\ last.op = "remove_kf" /\ last.arg = 0
  /\ KfCount(model) > 0
  /\ ~model.dirty

\* C23: on every track, whatever duration a keyframe carries (none, zero,
\* negative or positive), its effective duration is at least one tick, and a
\* tick is longer than nothing.
C23_EffDurationFloor ==
  /\ TICK_SEC > 0
  /\ \A s \in KfSlots(model) : EffDuration(s[1], model.tracks[s[1]][s[2]]) >= TICK_SEC

\* a LOGIC keyframe with a negative duration next to one of a second
C23_Witness ==
  /\ Len(model.tracks["LOGIC"]) = 2
  /\ model.tracks["LOGIC"][1].data.duration < 0
  /\ model.tracks["LOGIC"][2].data.duration = Ds(10)

(***************************************************************************)
(* Crossfade of two backgrounds                                            *)
(***************************************************************************)
\* the overlap window of the model's first two backgrounds: from the start of
\* the later one to whichever end comes first
OverlapA(m) == m.tracks["BG"][2].t
OverlapB(m) == Min(KfEnd("BG", m.tracks["BG"][1]), KfEnd("BG", m.tracks["BG"][2]))

\* an alpha of one half, to the nearest step of 1/255
Half == {127, 128}

\* C24, as stated: with two overlapping backgrounds (the later one may lie
\* inside the earlier one) and [a, b] the interval in which both are active,
\* the compositor draws previous/current with alpha 1/0 at a, 0/1 at b and
\* one half each at the midpoint.
C24_CrossfadeSymmetry ==
  LET a == OverlapA(model)
      b == OverlapB(model)
      blend == RenderBgBlend(game, widget.playhead)
  IN  /\ widget.playhead = a /\ last.op # "init" => blend = [prev |-> 255, cur |-> 0]
      /\ widget.playhead = b => blend = [prev |-> 0, cur |-> 255]
      /\ 2 * widget.playhead = a + b => blend.prev \in Half /\ blend.cur \in Half

(***************************************************************************)
(* The typewriter                                                          *)
(***************************************************************************)
\* the playhead stands in the window of a dialog of the timeline
InDialog(m, t) == Windows(m, "DIALOG", t) # {}

\* the number of characters the compositor shows at the widget's playhead
Shown(g, w) == RenderDialog(g, w.playhead).typed

\* C25: while the playhead moves forward inside the window of one dialog
\* block, the number of characters shown never goes down (the typing is not
\* restarted), and it is never more than the text has.
C25_TypewriterMonotone ==
  [][/\ Shown(game', widget') <= StrLen(game'.dialog.text)
     /\ (/\ InDialog(model, widget.playhead) /\ InDialog(model, widget'.playhead)
         /\ Latest(model, "DIALOG", widget.playhead)
              = Latest(model, "DIALOG", widget'.playhead)
         /\ widget'.playhead >= widget.playhead
         /\ last.op # "init")
        => Shown(game', widget') >= Shown(game, widget)]_vars

\* a click forward inside the dialog while its text is half typed
C25_Witness ==
  /\ last.op = "scrub"
  /\ InDialog(model, last.pre.playhead) /\ last.pre.playhead > Ds(10)
  /\ widget.playhead > last.pre.playhead
  /\ Shown(game, widget) > 0
  /\ Shown(game, widget) < StrLen(game.dialog.text)

\* C26, as stated: at every time t in the window of a dialog with a rate above
\* zero, rates below one character per second included, the compositor shows
\* min(len(text), floor((t - start) * chars_per_second)) characters, with the
\* rate the keyframe carries.
C26_VisibleCharacters ==
  InDialog(model, widget.playhead) /\ last.op # "init" =>
    LET k == Latest(model, "DIALOG", widget.playhead)
        cps == Get(k.data, "cps", 10 * DefaultCps)
    IN  Shown(game, widget)
          = Min(StrLen(Get(k.data, "text", "")),
                ((widget.playhead - k.t) * cps) \div (10 * UnitsPerSecond))

(***************************************************************************)
(* Targets of jumps                                                        *)
(***************************************************************************)
\* C27: a tick that entered one jump ends at the time of the label its target
\* names, also when the name reads as a number; without such a label at the
\* number its target reads as; and with a target that is neither where the
\* tick had brought the playhead, still playing.
C27_FallbackChain ==
  last.op = "tick" /\ Len(EnteredJumps) = 1 =>
    LET target == TargetRaw(EnteredJumps[1].data)
        named == LabelKfs(model, target)
    IN  /\ last.ev.jumped
        /\ IF named # {}
             THEN \E i \in named : widget.playhead = model.tracks["LOGIC"][i].t
           ELSE IF target \in FloatStrings
             THEN widget.playhead = Clamp(0, model.duration, FloatOf(target))
           ELSE /\ widget.playhead = Min(model.duration, last.pre.playhead + last.arg)
                /\ widget.playing

\* a tick entered the jump to "nowhere" and playback went on from where it was
C27_Witness ==
  /\ last.op = "tick" /\ Len(EnteredJumps) = 1
  /\ TargetRaw(EnteredJumps[1].data) = "nowhere"
  /\ widget.playhead = last.pre.playhead + last.arg
  /\ widget.playing

(***************************************************************************)
(* Music                                                                   *)
(***************************************************************************)
\* the MUSIC keyframes a handler entered, in the order it entered them
MusicEntered(ev) == SelectSeq(ev.entered, LAMBDA e : e.track = "MUSIC")

\* the mixer plays the file of block k from the given offset
PlaysFrom(a, k, offset) ==
  a = [state |-> "playing", path |-> Get(k.data, "value", ""), start |-> offset]

\* C28: a tick that enters a MUSIC block without resynchronising starts its
\* file at offset 0; a resync that ends playing inside a MUSIC block starts it
\* at playhead - start; both remember the end of the block; and of the playing
\* ticks that follow, the first to bring the playhead past that end stops the
\* music, and none before it does.
C28_MusicOffsets ==
  [][LET ev == last'.ev
         ph == widget'.playhead
         Entered == FindKf(model.tracks, "MUSIC", Last(MusicEntered(ev)).id)[1]
         Landed == Latest(model, "MUSIC", ph)
     IN  /\ last'.op = "tick" /\ ~Resynced' /\ MusicEntered(ev) # <<>> =>
              /\ widget'.music_end = KfEnd("MUSIC", Entered)
              /\ ph <= KfEnd("MUSIC", Entered) => PlaysFrom(mixer', Entered, 0)
         /\ Resynced' /\ widget'.playing /\ Windows(model, "MUSIC", ph) # {} =>
              /\ widget'.music_end = KfEnd("MUSIC", Landed)
              /\ PlaysFrom(mixer', Landed, ph - Landed.t)
         /\ (/\ last'.op = "tick" /\ widget.playing /\ ~Resynced'
             /\ MusicEntered(ev) = <<>> /\ widget.music_end >= 0) =>
              IF ph > widget.music_end THEN mixer'.state = "idle" ELSE mixer' = mixer]_vars

\* the jump at 2.5 s landed at 1.5 s, half a second into the music
C28_Witness ==
  /\ last.op = "tick" /\ last.ev.jumped
  /\ widget.playing
  /\ widget.playhead = Ds(15)
  /\ mixer.state = "playing" /\ mixer.start = Ds(5)
  /\ widget.music_end = Ds(20)

(***************************************************************************)
(* External scripts                                                        *)
(***************************************************************************)
\* the keyframes whose start a tick from playhead `from` with step dt passes
Passed(m, from, dt) == KeyframesAt(m.tracks, from, Min(m.duration, from + dt))

\* C29: a handler that ran an external script which is missing or fails logs
\* the failure and raises nothing.  A tick still enters every keyframe it
\* passed, closes the gates, applies the pending jump of the keyframe (to
\* 2.5 s, where the menu opens), resynchronises and updates the layers; a menu
\* selection still closes the menu, jumps to the option's target (0) and
\* returns to playing.
C29_ScriptFailureContained ==
  last.ev.scripts # <<>> =>
    /\ ~last.ev.failed
    /\ Len(last.ev.logged) = Len(last.ev.scripts)
    /\ last.op = "tick" =>
         /\ Len(last.ev.entered) = Len(Passed(model, last.pre.playhead, last.arg))
         /\ last.ev.jumped
         /\ last.ev.steps = <<"enters", "gates", "jump", "sync", "layers">>
         /\ widget.playhead = Ds(25)
         /\ widget.pending_jump = <<>>
         /\ widget.menu_active
    /\ last.op = "key" =>
         /\ last.ev.selected = 0
         /\ ~widget.menu_active
         /\ widget.playing
         /\ widget.playhead = 0

\* the script that raises in run(ctx) was run by a tick that also entered the
\* label behind its keyframe and then jumped to the menu
C29_Witness ==
  /\ last.op = "tick"
  /\ last.ev.scripts = <<"boom.py">>
  /\ last.ev.logged = <<"run error">>
  /\ Len(last.ev.entered) = 2
  /\ widget.playhead = Ds(25)

(***************************************************************************)
(* The step of a tick                                                      *)
(***************************************************************************)
\* the DIALOG keyframes a handler entered
DialogEntered(ev) == SelectSeq(ev.entered, LAMBDA e : e.track = "DIALOG")

\* the compositor holds the dialog of keyframe k
DialogSet(g, k) == g.dialog.text = Get(k.data, "text", "") /\ g.dialog.start = k.t

\* C30, as stated: a playing tick that neither loops nor jumps moves the
\* playhead forward by at most 50 ms and never past the duration, and the tick
\* that passes the start of a DIALOG keyframe (the first tick that can end in
\* its window, and in forward playback the only one that can when it ends
\* behind it) ends with the playhead inside [start, start + effective
\* duration] and the dialog of the keyframe set in the compositor.
C30_NoBlockSkipped ==
  last.op = "tick" /\ last.pre.playing /\ ~last.ev.jumped /\ ~last.ev.looped =>
    /\ widget.playhead - last.pre.playhead >= 0
    /\ widget.playhead - last.pre.playhead <= MaxDt
    /\ widget.playhead <= model.duration
    /\ \A i \in 1..Len(DialogEntered(last.ev)) :
         LET k == FindKf(model.tracks, "DIALOG", DialogEntered(last.ev)[i].id)[1]
         IN  /\ k.t <= widget.playhead
             /\ widget.playhead <= KfEnd("DIALOG", k)
             /\ DialogSet(game, k)

(***************************************************************************)
(* Playback while the LOGIC track is edited                                *)
(***************************************************************************)
\* the LOGIC keyframes the timeline may hold
MaxLogic == 3

LabelTargets == {0, Ds(20)}

InitLabel ==
  /\ model = LabelScene
  /\ widget = NewWidget
  /\ game = NewGame
  /\ mixer = NewMixer
  /\ main = NewMain(model)
  /\ last = [op |-> "init", arg |-> 0, ev |-> NoEvents,
             pre |-> [menu |-> FALSE, playing |-> FALSE, playhead |-> 0]]
  /\ hist = NewHist(model, -1)
  /\ session = NewSession(model)

\* a click on the timeline at its start or inside the menu
DoScrubLabel ==
  \E t \in LabelTargets :
    /\ Commit(ScrubTo(RunState, model, t), model, "scrub", t)
    /\ UNCHANGED main

\* the timeline's "Add ... here": a second label "Start", at 1 s
DoAddLabel ==
  /\ Len(model.tracks["LOGIC"]) < MaxLogic
  /\ EditCommit(AddKf(model, "LOGIC", Ds(10), [type |-> "label", name |-> "Start"], FALSE),
                "add_kf", model.next_id)

NextLabel ==
  \/ DoTick
  \/ DoTogglePlay
  \/ DoKeyPress
  \/ DoScrubLabel
  \/ DoAddLabel

SpecLabel == InitLabel /\ [][NextLabel]_vars

\* C32, as stated: a tick that entered a LOGIC jump, and a tick or a scrub_to
\* that ends inside the window of a MENU keyframe (whose option targets it
\* resolved), leave a label index equal to the mapping derived from the LOGIC
\* track as it is then.
C32_LabelIndexFresh ==
  (/\ last.op \in {"tick", "scrub"}
   /\ EnteredJumps # <<>> \/ MenuWindows(model, widget.playhead) # {}) =>
    widget.label_index = RebuildLabels(model.tracks)

(***************************************************************************)
(* The order of the enter events                                           *)
(***************************************************************************)
InitOrder ==
  /\ model = OrderScene
  /\ widget = NewWidget
  /\ game = NewGame
  /\ mixer = NewMixer
  /\ main = NewMain(model)
  /\ last = [op |-> "init", arg |-> 0, ev |-> NoEvents,
             pre |-> [menu |-> FALSE, playing |-> FALSE, playhead |-> 0]]
  /\ hist = NewHist(model, -1)
  /\ session = NewSession(model)

NextOrder ==
  \/ DoTick
  \/ DoTogglePlay

SpecOrder == InitOrder /\ [][NextOrder]_vars

\* the start time of the i-th keyframe the last handler entered
EnteredT(i) ==
  FindKf(model.tracks, last.ev.entered[i].track, last.ev.entered[i].id)[1].t

\* C33, as stated: the enter events of a tick are applied in ascending order
\* of start time; of several DIALOG keyframes entered by a tick that does not
\* jump the latest-starting one is the dialog set, and of several jump
\* keyframes the latest-starting one decides where the tick lands.
C33_EntersInTimeOrder ==
  last.op = "tick" =>
    /\ \A i, j \in 1..Len(last.ev.entered) : i < j => EnteredT(i) <= EnteredT(j)
    /\ (DialogEntered(last.ev) # <<>> /\ ~Resynced) =>
         \E i \in 1..Len(DialogEntered(last.ev)) :
           LET k == FindKf(model.tracks, "DIALOG", DialogEntered(last.ev)[i].id)[1]
           IN  /\ DialogSet(game, k)
               /\ \A j \in 1..Len(DialogEntered(last.ev)) :
                    FindKf(model.tracks, "DIALOG", DialogEntered(last.ev)[j].id)[1].t <= k.t
    /\ EnteredJumps # <<>> =>
         \E i \in 1..Len(EnteredJumps) :
           /\ widget.playhead = FloatOf(TargetRaw(EnteredJumps[i].data))
           /\ \A j \in 1..Len(EnteredJumps) : EnteredJumps[j].t <= EnteredJumps[i].t

(***************************************************************************)
(* Screen shake                                                            *)
(***************************************************************************)
\* envelope and noise values, in thousandths
EnvChoices == {82, 1000}
NoiseChoices == {-1000, 0, 500}
\* arguments of shake_offset: before, at and behind the start and the end
ElapsedChoices == {-5, 0, 75, Ds(5), Ds(5) + 1}
DurationChoices == {-30, 0, Ds(5)}
AmplitudeChoices == {-4, 0, 8}

InitShake ==
  /\ model = ShakeScene
  /\ widget = NewWidget
  /\ game = NewGame
  /\ mixer = NewMixer
  /\ main = NewMain(model)
  /\ last = [op |-> "init", arg |-> 0, ev |-> NoEvents,
             pre |-> [menu |-> FALSE, playing |-> FALSE, playhead |-> 0]]
  /\ hist = NewHist(model, -1)
  /\ session = NewSession(model)

\* paintEvent: render_surface(self.playhead); `in` and `out` are what
\* shake_offset was given and the translation the frame was drawn with
DoPaintShake ==
  \E env \in EnvChoices, nx \in NoiseChoices, ny \in NoiseChoices :
    /\ last' = [op |-> "paint", arg |-> 0, ev |-> NoEvents, pre |-> Pre,
                in |-> [env |-> env, nx |-> nx, ny |-> ny],
                out |-> RenderShake(game, widget.playhead, env, nx, ny)]
    /\ UNCHANGED <<model, widget, game, mixer, main, hist, session>>

\* shake_offset called with arguments of its caller's choice
DoShakeOffset ==
  \E elapsed \in ElapsedChoices, duration \in DurationChoices,
     amplitude \in AmplitudeChoices, nx \in NoiseChoices \ {0} :
    /\ last' = [op |-> "shake_offset", arg |-> elapsed, ev |-> NoEvents, pre |-> Pre,
                in |-> [elapsed |-> elapsed, duration |-> duration,
                        amplitude |-> amplitude, nx |-> nx],
                out |-> ShakeOffset(elapsed, duration, amplitude, 1000, nx, -nx)]
    /\ UNCHANGED <<model, widget, game, mixer, main, hist, session>>

NextShake ==
  \/ DoTick
  \/ DoTogglePlay
  \/ DoPaintShake
  \/ DoShakeOffset

SpecShake == InitShake /\ [][NextShake]_vars

\* C34: shake_offset returns (0, 0) whenever elapsed < 0, elapsed > duration,
\* duration <= 0 or amplitude <= 0, whatever the noise; and a frame painted
\* with the playhead before the start of the shake the compositor holds, or
\* behind its start + duration, is drawn with no translation.
C34_ShakeZeroOutside ==
  /\ (/\ last.op = "shake_offset"
      /\ \/ last.in.elapsed < 0
         \/ last.in.elapsed > last.in.duration
         \/ last.in.duration <= 0
         \/ last.in.amplitude <= 0) => last.out = <<0, 0>>
  /\ (/\ last.op = "paint"
      /\ \/ widget.playhead < game.shake_start
         \/ widget.playhead > game.shake_start + game.shake_dur) => last.out = <<0, 0>>

\* a frame painted behind the end of the shake, with noise and envelope that
\* would move it, is drawn in place
C34_Witness ==
  /\ last.op = "paint"
  /\ game.shake_start = Ds(10) /\ game.shake_dur = Ds(5) /\ game.shake_amp = 8
  /\ widget.playhead > Ds(15)
  /\ last.in.env = 1000 /\ last.in.nx = 500 /\ last.in.ny = -1000
  /\ last.out = <<0, 0>>

(***************************************************************************)
(* Playback while the timeline shrinks                                     *)
(***************************************************************************)
ShrinkTargets == {0, MinDuration + 450}

InitShrink ==
  /\ model = LongScene
  /\ widget = NewWidget
  /\ game = NewGame
  /\ mixer = NewMixer
  /\ main = NewMain(model)
  /\ last = [op |-> "init", arg |-> 0, ev |-> NoEvents,
             pre |-> [menu |-> FALSE, playing |-> FALSE, playhead |-> 0]]
  /\ hist = NewHist(model, -1)
  /\ session = NewSession(model)

\* a click on the timeline at its start or inside the last block
DoScrubShrink ==
  \E t \in ShrinkTargets :
    /\ Commit(ScrubTo(RunState, model, t), model, "scrub", t)
    /\ UNCHANGED main

NextShrink ==
  \/ DoTick
  \/ DoTogglePlay
  \/ DoStop
  \/ DoScrubShrink
  \/ DoDeleteSel

SpecShrink == InitShrink /\ [][NextShrink]_vars

\* C35, as stated: in every state 0 <= playhead <= model.duration.
C35_PlayheadInRange ==
  /\ 0 <= widget.playhead
  /\ widget.playhead <= model.duration

(***************************************************************************)
(* PLAYING and MENU_MODAL exclude each other                               *)
(***************************************************************************)
\* C36: after every handler of the widget (tick, scrub_to, stop, key press,
\* mouse press, the transport calls and paint) an active menu means playback
\* is not running.
C36_MenuNotPlaying ==
  widget.menu_active => ~widget.playing

\* an option was selected, which sets the playing flag, and its target lies in
\* the window of a menu: the menu is open again and playback is not running
C36_Witness ==
  /\ last.op \in {"key", "mouse"}
  /\ last.ev.selected >= 0
  /\ widget.menu_active
  /\ ~widget.playing

(***************************************************************************)
(* The pending jump                                                        *)
(***************************************************************************)
\* C37: at the end of every tick, scrub_to, stop and option selection the
\* pending-jump slot is empty; an option whose logic or inline script asks for
\* a jump leaves the playhead at the option's own target, and the tick after
\* it does not jump.
C37_NoPendingJumpSurvives ==
  /\ last.op \in {"tick", "scrub", "stop", "key", "mouse"} => widget.pending_jump = <<>>
  /\ (last.ev.selected >= 0 /\ ~widget.menu_active) => widget.playhead = last.ev.target
  /\ (last.op = "tick" /\ last.ev.jumped) => EnteredJumps # <<>>

\* the first option of the menu at 2 s was selected: its logic asks for a jump
\* to 2.5 s, its target is the label at 1 s, where playback goes on
C37_Witness ==
  /\ model = BranchScene
  /\ last.op \in {"key", "mouse"}
  /\ last.ev.selected = 0
  /\ last.pre.playhead < Ds(30)
  /\ widget.playhead = Ds(10)
  /\ widget.playing
  /\ widget.pending_jump = <<>>

(***************************************************************************)
(* The enter events of a loop iteration                                    *)
(***************************************************************************)
LoopTargets == {Ds(10), Ds(15)}

\* the loop is on, with A = 1 s and B = 2 s
InitLoop ==
  /\ model = LoopScene
  /\ widget = NewWidget
  /\ game = NewGame
  /\ mixer = NewMixer
  /\ main = [loop_enabled |-> TRUE, loop_a |-> Ds(10), loop_b |-> Ds(20)]
  /\ last = [op |-> "init", arg |-> 0, ev |-> NoEvents,
             pre |-> [menu |-> FALSE, playing |-> FALSE, playhead |-> 0]]
  /\ hist = NewHist(model, -1)
  /\ session = NewSession(model)

\* a click on the timeline at A or inside the region
DoScrubLoop ==
  \E t \in LoopTargets :
    /\ Commit(ScrubTo(RunState, model, t), model, "scrub", t)
    /\ UNCHANGED main

NextLoop ==
  \/ DoTick
  \/ DoTogglePlay
  \/ DoScrubLoop

SpecLoop == InitLoop /\ [][NextLoop]_vars

\* the ids of the keyframes the last handler entered
EnteredIds == {last.ev.entered[i].id : i \in 1..Len(last.ev.entered)}

\* the ids of the keyframes of any track that start in the set S of times
StartingIn(m, S) ==
  UNION {{m.tracks[tr][i].id : i \in {j \in 1..Len(m.tracks[tr]) : m.tracks[tr][j].t \in S}} :
         tr \in TrackSet}

\* C38, as stated: with the loop on and playback running inside [A, B), a
\* tick enters no keyframe that starts outside [A, B) and none twice; a tick
\* that stays in the region enters the keyframes it passes; and the tick that
\* ends the iteration enters those left between its playhead and B (so that
\* every keyframe of [A, B) is entered in the iteration) and, for the next
\* iteration, those at A.
C38_LoopEntersOnce ==
  (/\ last.op = "tick" /\ last.pre.playing
   /\ main.loop_enabled /\ main.loop_b > main.loop_a
   /\ main.loop_a <= last.pre.playhead /\ last.pre.playhead < main.loop_b) =>
    /\ EnteredIds \subseteq StartingIn(model, main.loop_a..(main.loop_b - 1))
    /\ Cardinality(EnteredIds) = Len(last.ev.entered)
    /\ IF last.ev.looped
         THEN /\ StartingIn(model, (last.pre.playhead + 1)..(main.loop_b - 1)) \subseteq EnteredIds
              /\ StartingIn(model, {main.loop_a}) \subseteq EnteredIds
         ELSE StartingIn(model, (last.pre.playhead + 1)..widget.playhead) \subseteq EnteredIds

(***************************************************************************)
(* Forward playback against scrub_to                                       *)
(***************************************************************************)
\* how far playback is followed
TalkHorizon == 1200

\* playback from the initial state, with nothing but the timer and play/pause
InitTalk ==
  /\ model \in Talks
  /\ widget = NewWidget
  /\ game = NewGame
  /\ mixer = NewMixer
  /\ main = NewMain(model)
  /\ last = [op |-> "init", arg |-> 0, ev |-> NoEvents,
             pre |-> [menu |-> FALSE, playing |-> FALSE, playhead |-> 0]]
  /\ hist = NewHist(model, -1)
  /\ session = NewSession(model)

\* the timer fires, up to 4 s of playback
DoTickTalk ==
  \E dt \in DtChoices :
    /\ widget.playhead < TalkHorizon
    /\ Commit(Tick(RunState, model, main, dt), model, "tick", dt)
    /\ UNCHANGED main

NextTalk ==
  \/ DoTickTalk
  \/ DoTogglePlay

SpecTalk == InitTalk /\ [][NextTalk]_vars

\* what the compositor draws of a dialog at the playhead: speaker, text and
\* the start of the typing, or nothing
DrawnDialog(g, playhead) ==
  IF RenderDialog(g, playhead).active
    THEN <<g.dialog.speaker, g.dialog.text, g.dialog.start>>
    ELSE <<>>

\* C39, as stated: after forward playback from the initial state to t the
\* compositor holds the dialog that scrub_to(t) sets, whatever the
\* arrangement of the DIALOG blocks.
C39_PlaybackEqualsScrub ==
  last.op = "tick" /\ last.pre.playing =>
    DrawnDialog(game, widget.playhead)
      = DrawnDialog(ScrubTo(RunState, model, widget.playhead).g, widget.playhead)

(***************************************************************************)
(* The end gates                                                           *)
(***************************************************************************)
\* C31: at the end of a playing tick, with every enter event of the tick
\* applied, a playhead behind the remembered end of the dialog block entered
\* last means the compositor holds no dialog, and a playhead behind the
\* remembered end of the music means the mixer plays nothing; a playhead not
\* behind the end of the dialog the tick entered leaves that dialog set.
C31_GatesAfterEnters ==
  last.op = "tick" /\ last.pre.playing =>
    /\ widget.dialog_end >= 0 /\ widget.playhead > widget.dialog_end =>
         game.dialog.text = ""
    /\ widget.music_end >= 0 /\ widget.playhead > widget.music_end =>
         mixer.state = "idle"
    /\ \A i \in 1..Len(DialogEntered(last.ev)) :
         (i = Len(DialogEntered(last.ev)) /\ ~Resynced
            /\ widget.playhead <= widget.dialog_end) =>
           DialogSet(game, FindKf(model.tracks, "DIALOG", DialogEntered(last.ev)[i].id)[1])

\* one slow frame entered the brief dialog and the brief music and ended behind
\* both: the dialog is cleared and the music stopped in the same tick
C31_Witness ==
  /\ last.op = "tick" /\ last.pre.playing
  /\ DialogEntered(last.ev) # <<>> /\ MusicEntered(last.ev) # <<>>
  /\ widget.playhead > widget.dialog_end /\ widget.dialog_end = Ds(10) + TICK_SEC
  /\ widget.playhead > widget.music_end /\ widget.music_end = Ds(10) + TICK_SEC
  /\ game.dialog.text = ""
  /\ mixer.state = "idle"

(***************************************************************************)
(* The dirty flag                                                          *)
(***************************************************************************)
\* the calls that leave the project clean: File > Save (mark_clean) and a
\* load_json that returned
Cleaning(l) ==
  \/ l.op = "save"
  \/ l.op \in {"load_json", "load_saved"} /\ l.arg = 0

\* C40, as stated: a call that changes the content of the tracks (add_kf,
\* remove_kf, delete_keyframes, the property editor's Apply, a menu-option
\* edit, a drag or a resize of a block) leaves model.dirty true, the flag
\* stays true until mark_clean or a load_json that returned, and these two
\* leave it false.
C40_EditsMarkDirty ==
  [][/\ (model'.tracks # model.tracks /\ last'.op \notin {"load_json", "load_saved"}
           => model'.dirty)
     /\ (model.dirty /\ ~model'.dirty => Cleaning(last'))
     /\ (Cleaning(last') => ~model'.dirty)]_vars

====
